---- MODULE Spec2Model ----
(***************************************************************************)
(* Crucible frontend: the epistemic utilities of                          *)
(* frontend/src/utils/epistemic.js and the components that call them.      *)
(*                                                                         *)
(*   VerdictSpec    calcVerdict applied to every input of its input space  *)
(*   AnnotateSpec   annotateChairmanText applied to every input of its     *)
(*                  input space                                            *)
(*   SummarySpec    one assistant message rendered by EpistemicSummary     *)
(*                  and MinorityReport                                     *)
(*   OrderSpec      calcVerdict applied to Stage 1 lists whose             *)
(*                  confidences are not all integers                       *)
(*   AppSpec        App.jsx: one session, from the selection of a          *)
(*                  conversation over the Phase 0 review to the council    *)
(*                  stream request                                         *)
(*   CouncilSpec    App.jsx: the first council stream of a session, from   *)
(*                  the query to the end of the stream                     *)
(*   ReaderSpec     api.js: sendMessageStream reading one event stream     *)
(*                  that the network delivers in chunks                    *)
(*   RankingSpec    calculate_aggregate_rankings applied to every set of   *)
(*                  Stage 2 votes of its input space                       *)
(*   TurnSpec       the backend's streamed turns of one conversation:      *)
(*                  progress events, Stage 2.5 isolation, settled facts    *)
(*                                                                         *)
(* The backend (main.py, council.py, storage.py) is described by the       *)
(* specification and by CLAUDE.md; RankingSpec and TurnSpec follow those.  *)
(*                                                                         *)
(* A string is the sequence of its UTF-16 code units; a code unit is       *)
(* written as a TLA+ string:                                               *)
(*   "a" "b" "c" "A" "B"   the ASCII letters                               *)
(*   "." " "               full stop, space                                *)
(*   "I_dot"               U+0130 LATIN CAPITAL LETTER I WITH DOT ABOVE    *)
(*   "i" "dot"             U+0069 and U+0307 COMBINING DOT ABOVE, the      *)
(*                         lowercase form of U+0130                        *)
(***************************************************************************)
EXTENDS Integers, Sequences, FiniteSets, Bags, TLC

VARIABLES
    stage25,          \* calcVerdict argument: Stage 2.5 results (or null)
    stage1,           \* calcVerdict argument: Stage 1 responses (or null)
    verdict,          \* value returned by calcVerdict, "pending" before the call
    responseText,     \* annotateChairmanText argument: the chairman's text
    stage25Results,   \* annotateChairmanText argument: Stage 2.5 results
    annotated,        \* outcome of annotateChairmanText, phase "pending" before it
    replacements,     \* the function's local `replacements` when it ended
    aggregateRankings, \* msg.metadata.aggregate_rankings of the rendered message
    stage3,           \* msg.stage3: chairman model id and final answer text
    peerAlignment,    \* EpistemicSummary's peerAlignment, "pending" before render
    confRange,        \* EpistemicSummary's confRange, null before render
    minorityModel,    \* MinorityReport's minorityModel, "pending" before render
    currentConversationId, \* App state: 0 is null, no conversation selected
    messages,         \* App state: currentConversation.messages
    isLoading,        \* App state
    phase0State,      \* App state: {status, original, scrubbed, reasoning}
    scrubCall,        \* the last api.scrubPhase0 call: its argument and outcome
    streamCall,       \* the last api.sendMessageStream call: its request body
    shownId,          \* App state: currentConversation.id, 0 while it is null
    stored,           \* server: conversation id -> the messages it has saved
    loadCalls,        \* bag of the api.getConversation calls in flight
    createCalls,      \* bag of the api.createConversation calls in flight
    conversations,    \* App state: ids of the conversations of the sidebar
    listCalls,        \* bag of the api.listConversations calls in flight
    written,          \* event types the server has written to the stream
    streamRead,       \* number of them that api.sendMessageStream has read
    delivered,        \* event types the open stream has passed to onEvent
    renderError,      \* a state updater threw: React has unmounted the app
    effectId,         \* the currentConversationId the load effect last ran for
    votes,            \* Stage 2: voter -> its parsed ranking, best first
    aggregate,        \* calculate_aggregate_rankings(votes), "pending" before
    pc,               \* backend: position of the turn's pipeline
    turn,             \* backend: number of turns started in the conversation
    events,           \* backend: progress events emitted in the current turn
    stage25Outcome,   \* backend: how Stage 2.5 ended in the current turn
    verification_results, \* backend: the turn's Stage 2.5 results
    settled_facts,    \* storage: the conversation's settled_facts
    verifiedEver,     \* history: claim texts that resolved VERIFIED in some turn
    serverEvents,     \* api.js: the event types the server wrote to the stream
    wire,             \* api.js: the text of the stream not yet read, in units
    onEventCalls,     \* api.js: the event types passed to onEvent, in order
    readerDone        \* api.js: reader.read() has reported done

verdictVars == <<stage25, stage1, verdict>>
annotateVars == <<responseText, stage25Results, annotated, replacements>>
summaryVars == <<aggregateRankings, stage3, peerAlignment, confRange, minorityModel>>

appVars == <<currentConversationId, messages, isLoading, phase0State, scrubCall, streamCall,
             shownId, stored, loadCalls, createCalls, conversations, listCalls,
             written, streamRead, delivered, renderError, effectId>>

rankVars == <<votes, aggregate>>
turnVars == <<pc, turn, events, stage25Outcome, verification_results, settled_facts,
              verifiedEver>>
backendVars == <<rankVars, turnVars>>

readerVars == <<serverEvents, wire, onEventCalls, readerDone>>

vars == <<verdictVars, annotateVars, summaryVars, appVars, backendVars, readerVars>>

----------------------------------------------------------------------------
(* Bounds of the checked input space *)

MaxVerif == 2         \* longest Stage 2.5 list given to calcVerdict
MaxModels == 2        \* most Stage 1 responses given to calcVerdict
MaxTextLen == 3       \* longest chairman text, in code units
MaxResults == 2       \* longest Stage 2.5 list given to annotateChairmanText
MaxRanked == 3        \* most entries of an aggregate-rankings list
MaxRankSteps == 4     \* average ranks run from 1.00 up in this many steps of 0.25
MaxQueryLen == 2      \* longest query typed into the input form, in code units
MaxConversations == 2 \* most conversations created in one session
MaxCouncil == 3       \* number of council models that rank one another
MaxTurns == 2         \* most turns of one conversation
MaxClaims == 2        \* most claims Stage 2.5 verifies in one turn
MaxCalls == 2         \* most conversation calls (create, get) in flight at one time
MaxLost == 1          \* most events of one council stream cut by a chunk boundary
MaxSent == 2          \* most events the server writes to one stream read by api.js
MaxPermuted == 3      \* most Stage 1 responses of a list given in every order

----------------------------------------------------------------------------
(* Generic helpers *)

RECURSIVE SeqsUpTo(_, _)
SeqsUpTo(S, n) ==
    IF n = 0 THEN {<<>>}
    ELSE LET shorter == SeqsUpTo(S, n - 1)
         IN  shorter \cup {Append(s, x) : s \in {t \in shorter : Len(t) = n - 1}, x \in S}

Range(s) == {s[i] : i \in 1..Len(s)}

RECURSIVE Flat(_)
\* Array.prototype.flat() on a list of lists
Flat(lists) ==
    IF lists = <<>> THEN <<>> ELSE Head(lists) \o Flat(Tail(lists))

RECURSIVE SumSeq(_)
\* reduce((sum, v) => sum + v, 0)
SumSeq(s) == IF s = <<>> THEN 0 ELSE Head(s) + SumSeq(Tail(s))

----------------------------------------------------------------------------
(* String primitives *)

\* String.prototype.toLowerCase on one code unit.  The result is a string:
\* U+0130 lowercases to the two code units U+0069 U+0307.
LowerUnit(c) ==
    CASE c = "A" -> <<"a">>
      [] c = "B" -> <<"b">>
      [] c = "I_dot" -> <<"i", "dot">>
      [] OTHER -> <<c>>

RECURSIVE toLowerCase(_)
toLowerCase(s) ==
    IF s = <<>> THEN <<>> ELSE LowerUnit(Head(s)) \o toLowerCase(Tail(s))

\* \w of a JavaScript regular expression without the u flag: [A-Za-z0-9_]
IsWordUnit(c) == c \in {"a", "b", "c", "i", "A", "B"}

\* \s of a JavaScript regular expression
IsSpaceUnit(c) == c = " "

RECURSIVE trimStart(_)
trimStart(s) ==
    IF s # <<>> /\ IsSpaceUnit(Head(s)) THEN trimStart(Tail(s)) ELSE s

RECURSIVE trimEnd(_)
trimEnd(s) ==
    IF s # <<>> /\ IsSpaceUnit(s[Len(s)]) THEN trimEnd(SubSeq(s, 1, Len(s) - 1)) ELSE s

trim(s) == trimEnd(trimStart(s))

\* normalize(str): str.toLowerCase().replace(/[^\w\s]/g, '').trim()
normalize(str) ==
    trim(SelectSeq(toLowerCase(str), LAMBDA c : IsWordUnit(c) \/ IsSpaceUnit(c)))

----------------------------------------------------------------------------
(* calcVerdict *)

Statuses == {"VERIFIED", "CONTRADICTED", "CONTESTED", "UNVERIFIABLE"}

\* confidence: null
NoConf == -1

\* A confidence is a JavaScript number, an IEEE-754 double.  The integers
\* 0..100 are written as themselves; a confidence of t tenths that is not an
\* integer is written 1000 + t and stands for the double nearest to t / 10.
Tenths(t) == 1000 + t

\* A double that is a multiple of 2^-47 is held as hi * 2^-20 + lo * 2^-47
\* with 0 <= lo < 2^27: every double of 32 <= x < 512 and every integer
HiUnit == 1048576
LoBase == 134217728

\* the double a written confidence stands for (60.1, 65.1 and 69.8 are the
\* nearest doubles of these decimals)
DoubleOf(c) ==
    CASE c = Tenths(601) -> [hi |-> 63019417, lo |-> 80530637]
      [] c = Tenths(651) -> [hi |-> 68262297, lo |-> 80530636]
      [] c = Tenths(698) -> [hi |-> 73190604, lo |-> 107374182]
      [] OTHER -> [hi |-> c * HiUnit, lo |-> 0]

\* units of 2^-47 between neighbouring doubles of the binade of hi * 2^-20
UlpAt(hi) ==
    IF hi >= 256 * HiUnit THEN 8
    ELSE IF hi >= 128 * HiUnit THEN 4
    ELSE IF hi >= 64 * HiUnit THEN 2
    ELSE 1

\* sum + v: the exact sum rounded to the nearest double, ties to the even
\* mantissa
DoubleAdd(a, b) ==
    LET lo == (a.lo + b.lo) % LoBase
        hi == a.hi + b.hi + ((a.lo + b.lo) \div LoBase)
        g == UlpAt(hi)
        r == lo % g
        down == lo - r
        up == 2 * r > g \/ (2 * r = g /\ (down \div g) % 2 = 1)
    IN  IF ~up THEN [hi |-> hi, lo |-> down]
        ELSE IF down + g = LoBase THEN [hi |-> hi + 1, lo |-> 0]
        ELSE [hi |-> hi, lo |-> down + g]

RECURSIVE ReduceFrom(_, _)
ReduceFrom(sum, confidences) ==
    IF confidences = <<>> THEN sum
    ELSE ReduceFrom(DoubleAdd(sum, DoubleOf(Head(confidences))), Tail(confidences))

\* confidences.reduce((sum, v) => sum + v, 0)
ReduceSum(confidences) == ReduceFrom(DoubleOf(0), confidences)

\* Variant of IsActionable that forgets CONTESTED
IsActionable_noContested(r) == r.status \in {"VERIFIED", "CONTRADICTED"}

\* r.status === 'VERIFIED' || r.status === 'CONTRADICTED' || r.status === 'CONTESTED'
IsActionable(r) == r.status \in {"VERIFIED", "CONTRADICTED", "CONTESTED"}

\* stage1.map((r) => r.confidence).filter((v) => v != null)
DeclaredConfidences(list) ==
    SelectSeq([i \in 1..Len(list) |-> list[i].confidence], LAMBDA v : v # NoConf)

\* Variant of AvgBelow with an inclusive comparison
AvgBelow_inclusive(confidences, t) ==
    /\ Len(confidences) > 0
    /\ \/ ReduceSum(confidences).hi < t * Len(confidences) * HiUnit
       \/ ReduceSum(confidences) = DoubleOf(t * Len(confidences))

\* avgConf !== null && avgConf < t, with avgConf = sum / length.  For a
\* list of up to four confidences and t one of 50, 55, 65 the doubles between
\* which sum lies are farther apart than the rounding of the quotient can
\* bridge, so the rounded sum / length is below t exactly when sum is below
\* t * length.
AvgBelow(confidences, t) ==
    Len(confidences) > 0 /\ ReduceSum(confidences).hi < t * Len(confidences) * HiUnit

\* avgConf !== null && avgConf >= t
AvgAtLeast(confidences, t) ==
    Len(confidences) > 0 /\ ReduceSum(confidences).hi >= t * Len(confidences) * HiUnit

\* stage1.map((r) => Array.isArray(r.factual_claims) ? r.factual_claims.map(normalize) : [])
AllClaims(list) ==
    [i \in 1..Len(list) |->
        IF list[i].factual_claims.isArray
        THEN [j \in 1..Len(list[i].factual_claims.items) |->
                 normalize(list[i].factual_claims.items[j])]
        ELSE <<>>]

\* [...new Set(allClaims.flat())]
UniqueClaims(allClaims) == Range(Flat(allClaims))

\* unique.filter((claim) => allClaims.filter((list) => list.includes(claim)).length >= 2)
OverlappingClaims(allClaims) ==
    {claim \in UniqueClaims(allClaims) :
        Cardinality({i \in 1..Len(allClaims) : claim \in Range(allClaims[i])}) >= 2}

\* Variant of OverlapAtLeastHalf with a strict comparison
OverlapAtLeastHalf_strict(allClaims) ==
    2 * Cardinality(OverlappingClaims(allClaims)) > Cardinality(UniqueClaims(allClaims))

\* overlapping.length / unique.length >= 0.5
OverlapAtLeastHalf(allClaims) ==
    2 * Cardinality(OverlappingClaims(allClaims)) >= Cardinality(UniqueClaims(allClaims))

\* Variant of FactualConsensus without the early avgConf < 50 return
FactualConsensus_noEarlyReturn(list) ==
    LET confidences == DeclaredConfidences(list)
        allClaims == AllClaims(list)
    IN  IF \A i \in 1..Len(allClaims) : Len(allClaims[i]) = 0
        THEN (IF AvgAtLeast(confidences, 65) THEN "Consensus" ELSE "Split")
        ELSE IF OverlapAtLeastHalf(allClaims) /\ AvgAtLeast(confidences, 65)
        THEN "Consensus"
        ELSE IF AvgBelow(confidences, 55) THEN "Uncertain" ELSE "Split"

\* Step 2 of calcVerdict, for a non-empty stage1 list
FactualConsensus(list) ==
    LET confidences == DeclaredConfidences(list)
        allClaims == AllClaims(list)
    IN  IF AvgBelow(confidences, 50) THEN "Uncertain"
        ELSE IF \A i \in 1..Len(allClaims) : Len(allClaims[i]) = 0
        THEN (IF AvgAtLeast(confidences, 65) THEN "Consensus" ELSE "Split")
        ELSE IF OverlapAtLeastHalf(allClaims) /\ AvgAtLeast(confidences, 65)
        THEN "Consensus"
        ELSE IF AvgBelow(confidences, 55) THEN "Uncertain" ELSE "Split"

\* Variant of ExternalEvidence that tests the actionable results for VERIFIED
\* before it looks for a CONTRADICTED one among the VERIFIED and CONTESTED
ExternalEvidence_verifiedFirst(s25) ==
    IF ~s25.isNull /\ Len(s25.items) > 0
    THEN LET actionable == SelectSeq(s25.items,
                               LAMBDA r : r.status \in {"VERIFIED", "CONTESTED"})
         IN  IF Len(actionable) > 0
                /\ \A i \in 1..Len(actionable) : actionable[i].status = "VERIFIED"
             THEN "Verified"
             ELSE IF \E i \in 1..Len(s25.items) : s25.items[i].status = "CONTRADICTED"
             THEN "Disputed"
             ELSE ""
    ELSE ""

\* Step 1 of calcVerdict: the verdict external evidence decides, "" when it
\* decides nothing and the function falls through to Step 2
ExternalEvidence(s25) ==
    IF ~s25.isNull /\ Len(s25.items) > 0
    THEN IF \E i \in 1..Len(s25.items) : s25.items[i].status = "CONTRADICTED"
         THEN "Disputed"
         ELSE LET actionable == SelectSeq(s25.items, IsActionable)
              IN  IF Len(actionable) > 0
                     /\ \A i \in 1..Len(actionable) : actionable[i].status = "VERIFIED"
                  THEN "Verified"
                  ELSE ""
    ELSE ""

\* Variant of calcVerdict that tests for a missing Stage 1 list first
calcVerdict_stage1First(s25, s1) ==
    IF s1.isNull \/ Len(s1.items) = 0 THEN "Unknown"
    ELSE IF ExternalEvidence(s25) # "" THEN ExternalEvidence(s25)
    ELSE FactualConsensus(s1.items)

calcVerdict(s25, s1) ==
    IF ExternalEvidence(s25) # "" THEN ExternalEvidence(s25)
    ELSE IF s1.isNull \/ Len(s1.items) = 0 THEN "Unknown"
    ELSE FactualConsensus(s1.items)

----------------------------------------------------------------------------
(* Inputs of calcVerdict *)

Null == [isNull |-> TRUE, items |-> <<>>]
Arr(items) == [isNull |-> FALSE, items |-> items]

\* declared confidences; pairs of them average to exactly 50, 55 and 65
Confidences == {NoConf, 40, 60, 70}

\* factual_claims values: absent, empty, and lists whose items differ in
\* case, punctuation and surrounding blanks
NotAnArray == [isArray |-> FALSE, items |-> <<>>]
ClaimArray(items) == [isArray |-> TRUE, items |-> items]
ClaimLists ==
    { NotAnArray,
      ClaimArray(<<>>),
      ClaimArray(<< <<"A">> >>),
      ClaimArray(<< <<"a", ".">>, <<"b">> >>),
      ClaimArray(<< <<" ", "b">>, <<"b">>, <<"c">> >>) }

Responses == [confidence : Confidences, factual_claims : ClaimLists]

VerifResults == [status : Statuses]

Stage25Inputs == {Null} \cup {Arr(s) : s \in SeqsUpTo(VerifResults, MaxVerif)}
Stage1Inputs == {Null} \cup {Arr(s) : s \in SeqsUpTo(Responses, MaxModels)}

----------------------------------------------------------------------------
(* annotateChairmanText *)

\* The returned string is a sequence of code units.  The attribute part of an
\* injected opening tag,
\*    class="claim-annotation claim-annotation--${status}"
\*    data-claim-idx="${claimIdx}" role="button" tabindex="0">
\* is kept as one unit that carries claimIdx and status; every other code unit
\* of the tags is a unit of its own.
Unit(c) == [unit |-> c, claimIdx |-> -1, status |-> ""]
Attrs(claimIdx, status) == [unit |-> "attrs", claimIdx |-> claimIdx, status |-> status]

\* `<span class=... data-claim-idx=... role="button" tabindex="0">`
OpenTag(claimIdx, status) ==
    <<Unit("<"), Unit("s"), Unit("p"), Unit("a"), Unit("n"), Attrs(claimIdx, status)>>

\* `</span>`
CloseTag ==
    <<Unit("<"), Unit("/"), Unit("s"), Unit("p"), Unit("a"), Unit("n"), Unit(">")>>

AsTokens(text) == [i \in 1..Len(text) |-> Unit(text[i])]

\* outcomes of a call
Pending == [phase |-> "pending", text |-> <<>>]
Returned(tokens) == [phase |-> "returned", text |-> tokens]
Threw == [phase |-> "threw", text |-> <<>>]

Min(a, b) == IF a <= b THEN a ELSE b

\* String.prototype.slice(start, end) for 0 <= start, on strings and on
\* token sequences; offsets are 0-based and clamped to the length
Slice(s, start, end) == SubSeq(s, Min(start, Len(s)) + 1, Min(end, Len(s)))

\* String.prototype.slice(start)
SliceFrom(s, start) == SubSeq(s, Min(start, Len(s)) + 1, Len(s))

\* String.prototype.indexOf(needle, pos) for a non-empty needle: the least
\* 0-based offset >= pos where needle occurs, -1 when there is none
indexOf(hay, needle, pos) ==
    LET hits == {i \in pos..(Len(hay) - Len(needle)) :
                    SubSeq(hay, i + 1, i + Len(needle)) = needle}
    IN  IF hits = {} THEN -1 ELSE CHOOSE i \in hits : \A j \in hits : i <= j

\* status.toLowerCase()
StatusLower(status) ==
    CASE status = "VERIFIED" -> "verified"
      [] status = "CONTRADICTED" -> "contradicted"
      [] status = "CONTESTED" -> "contested"
      [] OTHER -> "unverifiable"

\* Variant of IsAnnotatable that lets every status through
IsAnnotatable_anyStatus(r) == r.status \in Statuses

\* ['VERIFIED', 'CONTRADICTED', 'CONTESTED'].includes(r.status)
IsAnnotatable(r) == r.status \in {"VERIFIED", "CONTRADICTED", "CONTESTED"}

\* stage25Results.map((r, idx) => ({ ...r, originalIdx: idx })).filter(...)
Actionable(items) ==
    SelectSeq([i \in 1..Len(items) |->
                  [status |-> items[i].status, claim |-> items[i].claim,
                   hasClaim |-> items[i].hasClaim, originalIdx |-> i - 1]],
              IsAnnotatable)

\* One step of the stable sort by (a, b) => b.claim.length - a.claim.length:
\* item goes behind every element whose claim is at least as long
InsertByLength(sorted, item) ==
    LET ahead == SelectSeq(sorted, LAMBDA x : Len(x.claim) >= Len(item.claim))
        behind == SelectSeq(sorted, LAMBDA x : Len(x.claim) < Len(item.claim))
    IN  ahead \o <<item>> \o behind

RECURSIVE SortByLengthFrom(_, _)
SortByLengthFrom(sorted, rest) ==
    IF rest = <<>> THEN sorted
    ELSE SortByLengthFrom(InsertByLength(sorted, Head(rest)), Tail(rest))

\* actionable.sort((a, b) => b.claim.length - a.claim.length)
SortByLength(actionable) == SortByLengthFrom(<<>>, actionable)

\* The comparator reads .length of every claim it is given, and it is given
\* every element of a list of two or more: a missing claim makes it throw
SortThrows(actionable) ==
    Len(actionable) >= 2 /\ \E i \in 1..Len(actionable) : ~actionable[i].hasClaim

\* Variant of Overlaps that only asks whether the match starts in a used range
Overlaps_startInside(used, found, end) ==
    \E i \in 1..Len(used) : used[i][1] <= found /\ found < used[i][2]

\* used.some(([s, e]) => found < e && end > s)
Overlaps(used, found, end) ==
    \E i \in 1..Len(used) : found < used[i][2] /\ end > used[i][1]

RECURSIVE FirstFree(_, _, _, _, _)
\* the while loop: the first match of claimLower at or after pos whose range
\* [found, found + claimLength) overlaps no used range; -1 when there is none
FirstFree(lower, claimLower, claimLength, used, pos) ==
    LET found == indexOf(lower, claimLower, pos)
    IN  IF found = -1 THEN -1
        ELSE IF ~Overlaps(used, found, found + claimLength) THEN found
        ELSE FirstFree(lower, claimLower, claimLength, used, found + 1)

RECURSIVE Match(_, _, _, _)
\* for (const item of actionable) { ... }: the replacements pushed, in order
Match(lower, actionable, reps, used) ==
    IF actionable = <<>> THEN reps
    ELSE LET item == Head(actionable)
             claimLower == toLowerCase(item.claim)
             found == IF ~item.hasClaim \/ claimLower = <<>> THEN -1
                      ELSE FirstFree(lower, claimLower, Len(item.claim), used, 0)
         IN  IF found = -1 THEN Match(lower, Tail(actionable), reps, used)
             ELSE Match(lower, Tail(actionable),
                        Append(reps, [start |-> found,
                                      end |-> found + Len(item.claim),
                                      claimIdx |-> item.originalIdx,
                                      status |-> StatusLower(item.status)]),
                        Append(used, <<found, found + Len(item.claim)>>))

\* One step of the stable sort by (a, b) => b.start - a.start
InsertByStart(sorted, rep) ==
    LET ahead == SelectSeq(sorted, LAMBDA x : x.start >= rep.start)
        behind == SelectSeq(sorted, LAMBDA x : x.start < rep.start)
    IN  ahead \o <<rep>> \o behind

RECURSIVE SortByStartFrom(_, _)
SortByStartFrom(sorted, rest) ==
    IF rest = <<>> THEN sorted
    ELSE SortByStartFrom(InsertByStart(sorted, Head(rest)), Tail(rest))

\* replacements.sort((a, b) => b.start - a.start)
SortByStart(reps) == SortByStartFrom(<<>>, reps)

\* const slice = result.slice(start, end); const span = `<span ...>${slice}</span>`;
\* result = result.slice(0, start) + span + result.slice(end)
Inject(result, rep) ==
    Slice(result, 0, rep.start)
        \o OpenTag(rep.claimIdx, rep.status)
        \o Slice(result, rep.start, rep.end)
        \o CloseTag
        \o SliceFrom(result, rep.end)

RECURSIVE InjectAll(_, _)
\* for (const { start, end, claimIdx, status } of replacements) { ... }
InjectAll(result, reps) ==
    IF reps = <<>> THEN result
    ELSE InjectAll(Inject(result, Head(reps)), Tail(reps))

\* the value of `replacements` when the function ends (empty on the early
\* returns and when the sort throws)
MatchedReplacements(text, results) ==
    IF results.isNull \/ Len(results.items) = 0 THEN <<>>
    ELSE LET actionable == Actionable(results.items)
         IN  IF Len(actionable) = 0 \/ SortThrows(actionable) THEN <<>>
             ELSE SortByStart(Match(toLowerCase(text), SortByLength(actionable),
                                    <<>>, <<>>))

annotateChairmanText(text, results) ==
    IF results.isNull \/ Len(results.items) = 0 THEN Returned(AsTokens(text))
    ELSE LET actionable == Actionable(results.items)
         IN  IF Len(actionable) = 0 THEN Returned(AsTokens(text))
             ELSE IF SortThrows(actionable) THEN Threw
             ELSE Returned(InjectAll(AsTokens(text), MatchedReplacements(text, results)))

----------------------------------------------------------------------------
(* Inputs of annotateChairmanText *)

\* code units of the chairman's text
TextUnits == {"a", "B", "I_dot"}

\* claim texts: absent, empty, contained in one another, overlapping one
\* another, and differing from the text in case
NoClaim == [hasClaim |-> FALSE, claim |-> <<>>]
ClaimText(claim) == [hasClaim |-> TRUE, claim |-> claim]
ClaimTexts ==
    { NoClaim,
      ClaimText(<<>>),
      ClaimText(<<"a">>),
      ClaimText(<<"a", "b">>),
      ClaimText(<<"B", "a">>) }

\* results: every claim text under the statuses that are annotated; under
\* the status that is filtered out before the claim is read, no claim and a
\* claim that occurs in the text
AnnotResults ==
    {[status |-> st, claim |-> c.claim, hasClaim |-> c.hasClaim] :
        st \in Statuses \ {"UNVERIFIABLE"}, c \in ClaimTexts}
    \cup {[status |-> "UNVERIFIABLE", claim |-> c.claim, hasClaim |-> c.hasClaim] :
              c \in {NoClaim, ClaimText(<<"a">>)}}

TextInputs == SeqsUpTo(TextUnits, MaxTextLen)
ResultInputs == {Null} \cup {Arr(s) : s \in SeqsUpTo(AnnotResults, MaxResults)}

----------------------------------------------------------------------------
(* calcPeerAlignment, calcConfidenceRange, getMinorityModel *)

\* r.factual_claims of any object: undefined, hence not an array, when the
\* object has no such property
factual_claims_of(r) ==
    IF "factual_claims" \in DOMAIN r THEN r.factual_claims ELSE NotAnArray

\* r.confidence of any object: undefined, which `v != null` drops like null,
\* when the object has no such property
confidence_of(r) ==
    IF "confidence" \in DOMAIN r THEN r.confidence ELSE NoConf

\* stage1.map((r) => Array.isArray(r.factual_claims) ? r.factual_claims.map(normalize) : [])
PeerClaims(items) ==
    [i \in 1..Len(items) |->
        IF factual_claims_of(items[i]).isArray
        THEN [j \in 1..Len(factual_claims_of(items[i]).items) |->
                 normalize(factual_claims_of(items[i]).items[j])]
        ELSE <<>>]

\* stage1.map((r) => r.confidence).filter((v) => v != null)
PeerConfidences(items) ==
    SelectSeq([i \in 1..Len(items) |-> confidence_of(items[i])], LAMBDA v : v # NoConf)

\* Math.max(...values), Math.min(...values) of a non-empty list
MaxOf(values) == CHOOSE v \in Range(values) : \A w \in Range(values) : w <= v
MinOf(values) == CHOOSE v \in Range(values) : \A w \in Range(values) : w >= v

\* calcPeerAlignment(stage1); the components pass it msg.metadata.aggregate_rankings
calcPeerAlignment(list) ==
    IF list.isNull \/ Len(list.items) < 2 THEN "Unknown"
    ELSE LET allClaims == PeerClaims(list.items)
             unique == UniqueClaims(allClaims)
             overlapping == OverlappingClaims(allClaims)
             confidences == PeerConfidences(list.items)
         IN  IF Cardinality(unique) > 0
             THEN \* overlapRatio = overlapping.length / unique.length
                  IF 2 * Cardinality(overlapping) >= Cardinality(unique) THEN "Unanimous"
                  ELSE IF 5 * Cardinality(overlapping) >= Cardinality(unique) THEN "Majority"
                  ELSE "Split"
             ELSE IF Len(confidences) = 0 THEN "Unknown"
             ELSE LET spread == MaxOf(confidences) - MinOf(confidences)
                  IN  IF spread <= 15 THEN "Unanimous"
                      ELSE IF spread <= 30 THEN "Majority"
                      ELSE "Split"

\* the return value null of calcConfidenceRange
NoRange == [isNull |-> TRUE, min |-> 0, max |-> 0]

calcConfidenceRange(s1) ==
    IF s1.isNull THEN NoRange
    ELSE LET values == DeclaredConfidences(s1.items)
         IN  IF Len(values) = 0 THEN NoRange
             ELSE [isNull |-> FALSE, min |-> MinOf(values), max |-> MaxOf(values)]

\* the return value null of getMinorityModel
NullModel == "null"

\* One step of the stable sort by (a, b) => b.average_rank - a.average_rank:
\* entry goes behind every element whose average rank is at least as high
InsertByRank(sorted, entry) ==
    LET ahead == SelectSeq(sorted, LAMBDA x : x.average_rank >= entry.average_rank)
        behind == SelectSeq(sorted, LAMBDA x : x.average_rank < entry.average_rank)
    IN  ahead \o <<entry>> \o behind

RECURSIVE SortByRankFrom(_, _)
SortByRankFrom(sorted, rest) ==
    IF rest = <<>> THEN sorted
    ELSE SortByRankFrom(InsertByRank(sorted, Head(rest)), Tail(rest))

\* [...aggregateRankings].sort((a, b) => b.average_rank - a.average_rank)
SortByRank(entries) == SortByRankFrom(<<>>, entries)

\* Variant of getMinorityModel with an inclusive comparison of the gap
getMinorityModel_inclusive(rankings) ==
    IF rankings.isNull \/ Len(rankings.items) < 2 THEN NullModel
    ELSE LET sorted == SortByRank(rankings.items)
         IN  IF sorted[1].average_rank - sorted[2].average_rank >= 50
             THEN sorted[1].model
             ELSE NullModel

\* An average rank is held in hundredths: 150 is the number 1.5, and the gap
\* 0.5 is 50
getMinorityModel(rankings) ==
    IF rankings.isNull \/ Len(rankings.items) < 2 THEN NullModel
    ELSE LET sorted == SortByRank(rankings.items)
             worst == sorted[1]
             secondWorst == sorted[2]
         IN  IF worst.average_rank - secondWorst.average_rank > 50
             THEN worst.model
             ELSE NullModel

----------------------------------------------------------------------------
(* Inputs of EpistemicSummary and MinorityReport *)

\* average ranks 1.00, 1.25, 1.50, ... in hundredths; multiples of 0.25 are
\* numbers a double holds exactly, so that the subtraction in
\* getMinorityModel is exact
AverageRanks == {100 + 25 * k : k \in 0..MaxRankSteps}

\* The i-th entry of an aggregate-rankings list names the i-th council model
ModelNames == <<"m1", "m2", "m3", "m4", "m5">>
ModelId(i) == ModelNames[i]

\* {model, average_rank} entries, one per model
RankingLists ==
    {[i \in 1..Len(ranks) |-> [model |-> ModelId(i), average_rank |-> ranks[i]]] :
        ranks \in SeqsUpTo(AverageRanks, MaxRanked)}

RankingInputs == {Null} \cup {Arr(entries) : entries \in RankingLists}

\* msg.stage1 of the rendered message
SummaryStage1Inputs ==
    { Null,
      Arr(<<>>),
      Arr(<< [confidence |-> 70, factual_claims |-> ClaimArray(<< <<"a">> >>)],
             [confidence |-> 60, factual_claims |-> ClaimArray(<< <<"a">> >>)] >>),
      Arr(<< [confidence |-> 40, factual_claims |-> NotAnArray],
             [confidence |-> NoConf, factual_claims |-> ClaimArray(<< <<"b">> >>)] >>) }

\* msg.stage25 of the rendered message: absent, empty or one result
SummaryStage25Inputs ==
    {Null, Arr(<<>>)} \cup {Arr(<<r>>) : r \in VerifResults}

\* msg.stage3: {model, response}
Stage3Inputs ==
    { [model |-> ModelId(1), response |-> <<"a">>],
      [model |-> ModelId(2), response |-> <<"a", "B">>] }

----------------------------------------------------------------------------
(* App.jsx and api.js: the values of the Phase 0 review flow *)

\* const PHASE0_IDLE = { status: 'idle', original: '', scrubbed: '', reasoning: '' }
PHASE0_IDLE == [status |-> "idle", original |-> <<>>, scrubbed |-> <<>>, reasoning |-> <<>>]

\* { ...PHASE0_IDLE, status: 'scrubbing' }
Phase0Scrubbing == [PHASE0_IDLE EXCEPT !.status = "scrubbing"]

\* { status: 'pending', original: result.original, scrubbed: result.scrubbed,
\*   reasoning: result.reasoning }
Phase0Pending(result) ==
    [status |-> "pending", original |-> result.original,
     scrubbed |-> result.scrubbed, reasoning |-> result.reasoning]

\* { role: 'user', content }
UserMessage(content) ==
    [role |-> "user", content |-> content, usedScrubbed |-> FALSE,
     scrubbedContent |-> <<>>, reasoning |-> <<>>]

\* event.data and event.metadata of an event of the stream posted to a
\* conversation; null
Payload(type, conversationId) == [type |-> type, conversationId |-> conversationId]
NullData == Payload("null", 0)

\* the partial assistant message runCouncilStream appends
AssistantMessage ==
    [role |-> "assistant", stage1 |-> NullData, stage2 |-> NullData,
     stage3 |-> NullData, metadata |-> NullData,
     loading |-> [stage1 |-> FALSE, stage2 |-> FALSE, stage3 |-> FALSE]]

\* A finished turn as storage keeps it and api.getConversation returns it:
\* the user message with the original content and the assistant message
\* saved by add_assistant_message(conversation_id, stage1, stage2, stage3,
\* stage25) -- no metadata and no loading flags
StoredTurn(conversationId, content) ==
    << UserMessage(content),
       [role |-> "assistant",
        stage1 |-> Payload("stage1_complete", conversationId),
        stage2 |-> Payload("stage2_complete", conversationId),
        stage25 |-> Payload("stage25_complete", conversationId),
        stage3 |-> Payload("stage3_complete", conversationId)] >>

\* a string argument that may be null
NullText == [isNull |-> TRUE, text |-> <<>>]
Text(t) == [isNull |-> FALSE, text |-> t]

\* Variant of StreamBody that sends the accepted scrubbed text as the content
StreamBody_scrubbedAsContent(content, scrubbedContent) ==
    IF ~scrubbedContent.isNull /\ scrubbedContent.text # <<>>
    THEN [content |-> scrubbedContent.text, scrubbed_content |-> NullText]
    ELSE [content |-> content, scrubbed_content |-> NullText]

\* sendMessageStream: const body = scrubbedContent
\*     ? { content, scrubbed_content: scrubbedContent } : { content }
\* (null and the empty string are falsy); an absent field is held as null
StreamBody(content, scrubbedContent) ==
    IF ~scrubbedContent.isNull /\ scrubbedContent.text # <<>>
    THEN [content |-> content, scrubbed_content |-> scrubbedContent]
    ELSE [content |-> content, scrubbed_content |-> NullText]

\* No call made yet
NoResult == [original |-> <<>>, scrubbed |-> <<>>, reasoning |-> <<>>]
NoScrubCall == [state |-> "none", conversationId |-> 0, content |-> <<>>,
                result |-> NoResult]
NoStreamCall == [state |-> "none", conversationId |-> 0,
                 body |-> [content |-> <<>>, scrubbed_content |-> NullText]]

\* messages.findLastIndex((m) => m.role === 'user'), 0 for -1
FindLastUser(msgs) ==
    IF \E i \in 1..Len(msgs) : msgs[i].role = "user"
    THEN CHOOSE i \in 1..Len(msgs) :
             /\ msgs[i].role = "user"
             /\ \A j \in (i + 1)..Len(msgs) : msgs[j].role # "user"
    ELSE 0

\* messages.slice(0, -n)
DropLast(msgs, n) == SubSeq(msgs, 1, Len(msgs) - n)

\* Queries the input form submits: handleSubmit requires input.trim() to be
\* non-empty and passes the input as typed
QueryUnits == {"q", " "}
Queries == {q \in SeqsUpTo(QueryUnits, MaxQueryLen) : trim(q) # <<>>}

\* The body of a successful POST .../phase0: {original, scrubbed, reasoning},
\* original being the query as sent; a scrubber that failed inside the
\* backend answers with scrubbed = original and empty reasoning
ScrubResponses(content) ==
    {[original |-> content, scrubbed |-> sc, reasoning |-> re] :
        sc \in {content, trim(content), <<"s">>, <<>>},
        re \in {<<>>, <<"r">>}}

----------------------------------------------------------------------------
(* Backend, Stage 2: calculate_aggregate_rankings *)

\* COUNCIL_MODELS, in configuration order
Council == [i \in 1..MaxCouncil |-> ModelId(i)]

\* the models a voter is asked to rank: every council model but itself
Peers(voter) == Range(Council) \ {voter}

\* Variant of IsValidVote that accepts any ranking of the right length over
\* the council, the voter's own entry included
IsValidVote_selfAllowed(voter, ranking) ==
    /\ Len(ranking) = MaxCouncil - 1
    /\ Range(ranking) \subseteq Range(Council)
    /\ Cardinality(Range(ranking)) = Len(ranking)

\* A parsed ranking counts only if it is a permutation of exactly the
\* voter's peers; anything else is treated as unparsable
IsValidVote(voter, ranking) ==
    /\ Len(ranking) = Cardinality(Peers(voter))
    /\ Range(ranking) = Peers(voter)

\* 1-indexed position of a model in a ranking that contains it
PositionOf(model, ranking) == CHOOSE k \in 1..Len(ranking) : ranking[k] = model

\* the positions a model received, one per vote in which it was ranked
PositionsReceived(model, v) ==
    LET voters == SelectSeq(Council,
                      LAMBDA voter : /\ IsValidVote(voter, v[voter])
                                     /\ model \in Range(v[voter]))
    IN  [k \in 1..Len(voters) |-> PositionOf(model, v[voters[k]])]

\* One entry of the aggregate: the average rank is position_sum divided by
\* rankings_count, the number of votes the model received
AggregateEntry(model, v) ==
    [model |-> model,
     position_sum |-> SumSeq(PositionsReceived(model, v)),
     rankings_count |-> Len(PositionsReceived(model, v))]

\* calculate_aggregate_rankings: one entry per model that received a vote
calculate_aggregate_rankings(v) ==
    SelectSeq([i \in 1..MaxCouncil |-> AggregateEntry(Council[i], v)],
              LAMBDA e : e.rankings_count > 0)

\* the result of calculate_aggregate_rankings, not yet computed
NoAggregate == [done |-> FALSE, entries |-> <<>>]

\* all orderings of a set of models
RECURSIVE Orderings(_)
Orderings(S) ==
    IF S = {} THEN {<<>>}
    ELSE UNION {{<<x>> \o p : p \in Orderings(S \ {x})} : x \in S}

\* the peers of a voter in council order
PeersInOrder(voter) == SelectSeq(Council, LAMBDA m : m # voter)

\* Parsed rankings a voter can return: none (its answer did not parse), any
\* permutation of its peers, a ranking whose first entry is the voter
\* itself, and a ranking with one peer missing
ParsedRankings(voter) ==
    {<<>>}
    \cup Orderings(Peers(voter))
    \cup {[PeersInOrder(voter) EXCEPT ![1] = voter]}
    \cup {SubSeq(PeersInOrder(voter), 1, MaxCouncil - 2)}

\* the parsed rankings of the first n council models, in council order
RECURSIVE RankingsOfFirst(_)
RankingsOfFirst(n) ==
    IF n = 0 THEN {<<>>}
    ELSE {Append(rs, r) : rs \in RankingsOfFirst(n - 1), r \in ParsedRankings(Council[n])}

\* voter -> its parsed ranking
VoteInputs ==
    {[voter \in Range(Council) |->
         rs[CHOOSE i \in 1..MaxCouncil : Council[i] = voter]] :
        rs \in RankingsOfFirst(MaxCouncil)}

----------------------------------------------------------------------------
(* Backend, Stage 2.5 results and the settled facts of storage.py *)

\* claim texts
ClaimKeys == {"f1", "f2"}

\* verification results of one turn: {claim, status}; for the settled facts
\* a status is VERIFIED or it is not
VerificationLists ==
    SeqsUpTo([claim : ClaimKeys, status : {"VERIFIED", "CONTRADICTED"}], MaxClaims)

\* build_new_settled_facts: the VERIFIED results of the turn as facts
build_new_settled_facts(results, turnNo) ==
    LET verified == SelectSeq(results, LAMBDA r : r.status = "VERIFIED")
    IN  [i \in 1..Len(verified) |-> [text |-> verified[i].claim, source_turn |-> turnNo]]

\* Variant of add_settled_facts that appends without looking for duplicates
RECURSIVE add_settled_facts_noDedup(_, _)
add_settled_facts_noDedup(facts, new_facts) ==
    IF new_facts = <<>> THEN facts
    ELSE add_settled_facts_noDedup(Append(facts, Head(new_facts)), Tail(new_facts))

\* add_settled_facts: appends each new fact whose text is not yet in the list
RECURSIVE add_settled_facts(_, _)
add_settled_facts(facts, new_facts) ==
    IF new_facts = <<>> THEN facts
    ELSE IF \E i \in 1..Len(facts) : facts[i].text = Head(new_facts).text
    THEN add_settled_facts(facts, Tail(new_facts))
    ELSE add_settled_facts(Append(facts, Head(new_facts)), Tail(new_facts))

\* the progress events of a turn, in the order main.py yields them
EventOrder ==
    << "stage1_start", "stage1_complete", "stage2_start", "stage2_complete",
       "stage25_start", "stage25_complete", "stage3_start", "stage3_complete",
       "title_complete", "complete" >>

----------------------------------------------------------------------------
(* Specification of calcVerdict over the input space *)

RankIdle ==
    /\ votes = [voter \in Range(Council) |-> <<>>]
    /\ aggregate = NoAggregate

TurnIdle ==
    /\ pc = "idle"
    /\ turn = 0
    /\ events = <<>>
    /\ stage25Outcome = "none"
    /\ verification_results = <<>>
    /\ settled_facts = <<>>
    /\ verifiedEver = {}

BackendIdle == RankIdle /\ TurnIdle

\* api.js reads no stream
ReaderIdle ==
    /\ serverEvents = <<>>
    /\ wire = <<>>
    /\ onEventCalls = <<>>
    /\ readerDone = FALSE

AppIdle ==
    /\ currentConversationId = 0
    /\ messages = <<>>
    /\ isLoading = FALSE
    /\ phase0State = PHASE0_IDLE
    /\ scrubCall = NoScrubCall
    /\ streamCall = NoStreamCall
    /\ shownId = 0
    /\ stored = <<>>
    /\ loadCalls = EmptyBag
    /\ createCalls = EmptyBag
    /\ conversations = {}
    /\ listCalls = EmptyBag
    /\ written = <<>>
    /\ streamRead = 0
    /\ delivered = <<>>
    /\ renderError = FALSE
    /\ effectId = 0
    /\ ReaderIdle

SummaryIdle ==
    /\ aggregateRankings = Null
    /\ stage3 = [model |-> ModelId(1), response |-> <<>>]
    /\ peerAlignment = "pending"
    /\ confRange = NoRange
    /\ minorityModel = "pending"

AnnotateIdle ==
    /\ responseText = <<>>
    /\ stage25Results = Null
    /\ annotated = Pending
    /\ replacements = <<>>

VerdictInit ==
    /\ stage25 \in Stage25Inputs
    /\ stage1 \in Stage1Inputs
    /\ verdict = "pending"
    /\ AnnotateIdle
    /\ SummaryIdle
    /\ AppIdle
    /\ BackendIdle

\* EpistemicSummary / EpistemicDrawer: const verdict = calcVerdict(stage25, stage1)
CalcVerdict ==
    /\ verdict = "pending"
    /\ verdict' = calcVerdict(stage25, stage1)
    /\ UNCHANGED <<stage25, stage1, annotateVars, summaryVars, appVars, backendVars, readerVars>>

VerdictNext == CalcVerdict

VerdictSpec == VerdictInit /\ [][VerdictNext]_vars

----------------------------------------------------------------------------
(* Specification of calcVerdict over Stage 1 lists of up to MaxPermuted      *)
(* responses whose confidences are not all integers                         *)

PermutedConfidences == {70, Tenths(601), Tenths(651), Tenths(698)}

PermutedClaimLists ==
    { ClaimArray(<<>>),
      ClaimArray(<< <<"A">> >>),
      ClaimArray(<< <<"a", ".">>, <<"b">> >>) }

PermutedStage1Inputs ==
    {Arr(s) : s \in SeqsUpTo([confidence : PermutedConfidences,
                              factual_claims : PermutedClaimLists], MaxPermuted)}

OrderInit ==
    /\ stage25 \in Stage25Inputs
    /\ stage1 \in PermutedStage1Inputs
    /\ verdict = "pending"
    /\ AnnotateIdle
    /\ SummaryIdle
    /\ AppIdle
    /\ BackendIdle

OrderSpec == OrderInit /\ [][VerdictNext]_vars

----------------------------------------------------------------------------
(* Specification of annotateChairmanText over the input space *)

VerdictIdle ==
    /\ stage25 = Null
    /\ stage1 = Null
    /\ verdict = "pending"

AnnotateInit ==
    /\ responseText \in TextInputs
    /\ stage25Results \in ResultInputs
    /\ annotated = Pending
    /\ replacements = <<>>
    /\ VerdictIdle
    /\ SummaryIdle
    /\ AppIdle
    /\ BackendIdle

\* Stage3Annotated: annotateChairmanText(finalResponse.response, stage25)
Annotate ==
    /\ annotated = Pending
    /\ annotated' = annotateChairmanText(responseText, stage25Results)
    /\ replacements' = MatchedReplacements(responseText, stage25Results)
    /\ UNCHANGED <<responseText, stage25Results, verdictVars, summaryVars, appVars, backendVars, readerVars>>

AnnotateNext == Annotate

AnnotateSpec == AnnotateInit /\ [][AnnotateNext]_vars

----------------------------------------------------------------------------
(* Specification of one rendered assistant message: ChatInterface gives     *)
(* msg.stage1, msg.stage25 and msg.metadata.aggregate_rankings to           *)
(* EpistemicSummary and MinorityReport once msg.stage3 is present           *)

SummaryInit ==
    /\ stage1 \in SummaryStage1Inputs
    /\ stage25 \in SummaryStage25Inputs
    /\ aggregateRankings \in RankingInputs
    /\ stage3 \in Stage3Inputs
    /\ verdict = "pending"
    /\ peerAlignment = "pending"
    /\ confRange = NoRange
    /\ minorityModel = "pending"
    /\ AnnotateIdle
    /\ AppIdle
    /\ BackendIdle

\* Variant of RenderEpistemicSummary whose verdict rewrites the message: a
\* Disputed verdict drops the verification results and the chairman
RenderEpistemicSummary_rewriting ==
    /\ peerAlignment = "pending"
    /\ peerAlignment' = calcPeerAlignment(aggregateRankings)
    /\ verdict' = calcVerdict(stage25, stage1)
    /\ confRange' = calcConfidenceRange(stage1)
    /\ stage25' = IF verdict' = "Disputed" THEN Arr(<<>>) ELSE stage25
    /\ stage3' = IF verdict' = "Disputed"
                 THEN [model |-> NullModel, response |-> stage3.response]
                 ELSE stage3
    /\ UNCHANGED <<stage1, aggregateRankings, minorityModel, annotateVars, appVars, backendVars, readerVars>>

\* EpistemicSummary: the three calls at the top of the component; like the
\* same three calls of EpistemicDrawer they only read their arguments
RenderEpistemicSummary ==
    /\ peerAlignment = "pending"
    /\ peerAlignment' = calcPeerAlignment(aggregateRankings)
    /\ verdict' = calcVerdict(stage25, stage1)
    /\ confRange' = calcConfidenceRange(stage1)
    /\ UNCHANGED <<stage1, stage25, aggregateRankings, stage3, minorityModel, annotateVars, appVars, backendVars, readerVars>>

\* MinorityReport: const minorityModel = getMinorityModel(aggregateRankings);
\* the function sorts a copy of its argument
RenderMinorityReport ==
    /\ minorityModel = "pending"
    /\ minorityModel' = getMinorityModel(aggregateRankings)
    /\ UNCHANGED <<verdictVars, annotateVars, aggregateRankings, stage3, peerAlignment, confRange, appVars, backendVars, readerVars>>

SummaryNext == RenderEpistemicSummary \/ RenderMinorityReport

SummarySpec == SummaryInit /\ [][SummaryNext]_vars

----------------------------------------------------------------------------
(* Specification of App.jsx: conversations, the Phase 0 review and the      *)
(* council stream                                                           *)

SummaryIdleAll ==
    /\ VerdictIdle
    /\ AnnotateIdle
    /\ SummaryIdle

\* The conversations the server holds when the session begins: none, or one
\* of an earlier session with a finished turn
StoredInputs == { <<>>, << StoredTurn(1, <<"q">>) >> }

\* A call in flight that the server has yet to handle
NewListCall == [served |-> FALSE, ids |-> {}]
NewCreateCall(listed) == [id |-> 0, conversations |-> listed]
NewLoadCall(id) == [id |-> id, served |-> FALSE, messages |-> <<>>]

\* State after construction: no conversation selected, none shown, the
\* sidebar empty and the loadConversations() of the mount effect in flight
AppInit ==
    /\ currentConversationId = 0
    /\ messages = <<>>
    /\ isLoading = FALSE
    /\ phase0State = PHASE0_IDLE
    /\ scrubCall = NoScrubCall
    /\ streamCall = NoStreamCall
    /\ shownId = 0
    /\ stored \in StoredInputs
    /\ loadCalls = EmptyBag
    /\ createCalls = EmptyBag
    /\ conversations = {}
    /\ listCalls = SetToBag({NewListCall})
    /\ written = <<>>
    /\ streamRead = 0
    /\ delivered = <<>>
    /\ renderError = FALSE
    /\ effectId = 0
    /\ ReaderIdle
    /\ SummaryIdleAll
    /\ BackendIdle

\* One call of a bag of calls is replaced by its next state, or ends
Replaced(calls, call, next) == (calls (-) SetToBag({call})) (+) SetToBag({next})
Ended(calls, call) == calls (-) SetToBag({call})

\* A state setter called once React has unmounted the app changes nothing
SetState(now, next) == IF renderError THEN now ELSE next

\* React runs the effects of a render before it renders again: when the
\* selected conversation changes, the load effect has run for the one before
EffectsFlushed == effectId = currentConversationId

\* The server handles a GET /api/conversations: it answers with the
\* conversations it holds
ServerLists(call) ==
    /\ ~call.served
    /\ listCalls' = Replaced(listCalls, call, [served |-> TRUE, ids |-> 1..Len(stored)])
    /\ UNCHANGED <<currentConversationId, messages, isLoading, phase0State, scrubCall,
                   streamCall, shownId, stored, loadCalls, createCalls, conversations,
                   streamRead, written, delivered, renderError, effectId>>
    /\ UNCHANGED <<verdictVars, annotateVars, summaryVars, backendVars, readerVars>>

\* loadConversations after its await: setConversations(convs)
ConversationsLoaded(call) ==
    /\ call.served
    /\ listCalls' = Ended(listCalls, call)
    /\ conversations' = SetState(conversations, call.ids)
    /\ UNCHANGED <<currentConversationId, messages, isLoading, phase0State, scrubCall,
                   streamCall, shownId, stored, loadCalls, createCalls,
                   streamRead, written, delivered, renderError, effectId>>
    /\ UNCHANGED <<verdictVars, annotateVars, summaryVars, backendVars, readerVars>>

\* loadConversations, catch: api.listConversations threw; only logged
ListFailed(call) ==
    /\ listCalls' = Ended(listCalls, call)
    /\ UNCHANGED <<currentConversationId, messages, isLoading, phase0State, scrubCall,
                   streamCall, shownId, stored, loadCalls, createCalls, conversations,
                   streamRead, written, delivered, renderError, effectId>>
    /\ UNCHANGED <<verdictVars, annotateVars, summaryVars, backendVars, readerVars>>

\* useEffect on currentConversationId: after the render of a new id, when
\* it is not null, loadConversation(id) is called up to its await
LoadEffect ==
    /\ ~EffectsFlushed
    /\ effectId' = currentConversationId
    /\ loadCalls' = IF currentConversationId # 0
                    THEN loadCalls (+) SetToBag({NewLoadCall(currentConversationId)})
                    ELSE loadCalls
    /\ UNCHANGED <<currentConversationId, messages, isLoading, phase0State, scrubCall,
                   streamCall, shownId, stored, createCalls, conversations, listCalls,
                   streamRead, written, delivered, renderError>>
    /\ UNCHANGED <<verdictVars, annotateVars, summaryVars, backendVars, readerVars>>

\* The api.createConversation and api.getConversation calls in flight
InFlight == BagCardinality(createCalls) + BagCardinality(loadCalls)

\* The conversations the server will hold once it has handled the
\* api.createConversation calls in flight
Created ==
    Len(stored) + Cardinality({call \in BagToSet(createCalls) : call.id = 0})

\* handleNewConversation up to its await: api.createConversation is called;
\* the function keeps the `conversations` of the render of the click
HandleNewConversation ==
    /\ ~renderError
    /\ InFlight < MaxCalls
    /\ Created < MaxConversations
    /\ createCalls' = createCalls (+) SetToBag({NewCreateCall(conversations)})
    /\ UNCHANGED <<currentConversationId, messages, isLoading, phase0State, scrubCall,
                   streamCall, shownId, stored, loadCalls, conversations, listCalls,
                   streamRead, written, delivered, renderError, effectId>>
    /\ UNCHANGED <<verdictVars, annotateVars, summaryVars, backendVars, readerVars>>

\* The server handles a POST /api/conversations: it stores an empty
\* conversation under a fresh id and answers with it
ServerCreates(call) ==
    /\ call.id = 0
    /\ stored' = Append(stored, <<>>)
    /\ createCalls' = Replaced(createCalls, call, [call EXCEPT !.id = Len(stored) + 1])
    /\ UNCHANGED <<currentConversationId, messages, isLoading, phase0State, scrubCall,
                   streamCall, shownId, loadCalls, conversations, listCalls,
                   streamRead, written, delivered, renderError, effectId>>
    /\ UNCHANGED <<verdictVars, annotateVars, summaryVars, backendVars, readerVars>>

\* handleNewConversation after the await: the new conversation is put in
\* front of the conversations the function kept, and selected
ConversationCreated(call) ==
    /\ EffectsFlushed
    /\ call.id # 0
    /\ createCalls' = Ended(createCalls, call)
    /\ conversations' = SetState(conversations, {call.id} \cup call.conversations)
    /\ currentConversationId' = SetState(currentConversationId, call.id)
    /\ UNCHANGED <<messages, isLoading, phase0State, scrubCall, streamCall,
                   shownId, stored, loadCalls, listCalls, streamRead, written,
                   delivered, renderError, effectId>>
    /\ UNCHANGED <<verdictVars, annotateVars, summaryVars, backendVars, readerVars>>

\* handleNewConversation, catch: api.createConversation threw; only logged
CreateFailed(call) ==
    /\ createCalls' = Ended(createCalls, call)
    /\ UNCHANGED <<currentConversationId, messages, isLoading, phase0State, scrubCall,
                   streamCall, shownId, stored, loadCalls, conversations, listCalls,
                   streamRead, written, delivered, renderError, effectId>>
    /\ UNCHANGED <<verdictVars, annotateVars, summaryVars, backendVars, readerVars>>

\* handleSelectConversation(id): a click on a conversation of the sidebar
\* (a click on the selected one changes nothing)
HandleSelectConversation(id) ==
    /\ ~renderError
    /\ EffectsFlushed
    /\ id \in conversations
    /\ id # currentConversationId
    /\ InFlight < MaxCalls
    /\ currentConversationId' = id
    /\ UNCHANGED <<messages, isLoading, phase0State, scrubCall, streamCall,
                   shownId, stored, loadCalls, createCalls, conversations, listCalls,
                   streamRead, written, delivered, renderError, effectId>>
    /\ UNCHANGED <<verdictVars, annotateVars, summaryVars, backendVars, readerVars>>

\* The server handles a GET /api/conversations/{id}: it answers with the
\* conversation as stored at that time
ServerServes(call) ==
    /\ ~call.served
    /\ loadCalls' = Replaced(loadCalls, call,
                             [call EXCEPT !.served = TRUE, !.messages = stored[call.id]])
    /\ UNCHANGED <<currentConversationId, messages, isLoading, phase0State, scrubCall,
                   streamCall, shownId, stored, createCalls, conversations, listCalls,
                   streamRead, written, delivered, renderError, effectId>>
    /\ UNCHANGED <<verdictVars, annotateVars, summaryVars, backendVars, readerVars>>

\* loadConversation(id) after its await: the answer of one
\* api.getConversation call becomes currentConversation
ConversationLoaded(call) ==
    /\ call.served
    /\ loadCalls' = Ended(loadCalls, call)
    /\ shownId' = SetState(shownId, call.id)
    /\ messages' = SetState(messages, call.messages)
    /\ UNCHANGED <<currentConversationId, isLoading, phase0State, scrubCall,
                   streamCall, stored, createCalls, conversations, listCalls,
                   streamRead, written, delivered, renderError, effectId>>
    /\ UNCHANGED <<verdictVars, annotateVars, summaryVars, backendVars, readerVars>>

\* loadConversation(id), catch: one api.getConversation call threw; only
\* logged
LoadFailed(call) ==
    /\ loadCalls' = Ended(loadCalls, call)
    /\ UNCHANGED <<currentConversationId, messages, isLoading, phase0State, scrubCall,
                   streamCall, shownId, stored, createCalls, conversations, listCalls,
                   streamRead, written, delivered, renderError, effectId>>
    /\ UNCHANGED <<verdictVars, annotateVars, summaryVars, backendVars, readerVars>>

\* ChatInterface: the input form exists only while a conversation is shown
\* that has no message, and handleSubmit sends only when not loading;
\* handleSendMessage returns at once without a selected conversation
CanSubmit ==
    /\ currentConversationId # 0
    /\ shownId # 0
    /\ Len(messages) = 0
    /\ ~isLoading

\* handleSendMessage(content) up to its await of api.scrubPhase0
HandleSendMessage(content) ==
    /\ ~renderError
    /\ CanSubmit
    /\ isLoading' = TRUE
    /\ messages' = Append(messages, UserMessage(content))
    /\ phase0State' = Phase0Scrubbing
    /\ scrubCall' = [state |-> "pending", conversationId |-> currentConversationId,
                     content |-> content, result |-> NoResult]
    /\ UNCHANGED <<currentConversationId, streamCall, shownId, stored, loadCalls, createCalls, conversations, listCalls, streamRead,
                   written,
                   delivered, renderError, effectId>>
    /\ UNCHANGED <<verdictVars, annotateVars, summaryVars, backendVars, readerVars>>

\* handleSendMessage after the await: api.scrubPhase0 returned `result`
ScrubResolved(result) ==
    /\ scrubCall.state = "pending"
    /\ scrubCall' = [scrubCall EXCEPT !.state = "resolved", !.result = result]
    /\ phase0State' = SetState(phase0State, Phase0Pending(result))
    /\ UNCHANGED <<currentConversationId, messages, isLoading, streamCall,
                   shownId, stored, loadCalls, createCalls, conversations, listCalls, streamRead,
                   written, delivered, renderError, effectId>>
    /\ UNCHANGED <<verdictVars, annotateVars, summaryVars, backendVars, readerVars>>

\* handleSendMessage, catch: api.scrubPhase0 threw (fetch failed, or the
\* response was not ok)
ScrubRejected ==
    /\ scrubCall.state = "pending"
    /\ scrubCall' = [scrubCall EXCEPT !.state = "rejected"]
    /\ messages' = SetState(messages, DropLast(messages, 1))
    /\ phase0State' = SetState(phase0State, PHASE0_IDLE)
    /\ isLoading' = SetState(isLoading, FALSE)
    /\ UNCHANGED <<currentConversationId, streamCall, shownId, stored, loadCalls, createCalls, conversations, listCalls, streamRead,
                   written,
                   delivered, renderError, effectId>>
    /\ UNCHANGED <<verdictVars, annotateVars, summaryVars, backendVars, readerVars>>

\* Phase0Review: if (phase0State.status !== 'pending') return null -- the
\* buttons exist only in the pending state
ReviewShown == phase0State.status = "pending"

\* Phase0Review: const unchanged = original.trim() === scrubbed.trim()
Unchanged == trim(phase0State.original) = trim(phase0State.scrubbed)

\* runCouncilStream(originalContent, scrubbedContent) up to the fetch of
\* api.sendMessageStream, applied to the messages it is given: the request
\* goes to the conversation selected at the time of the call
RunCouncilStream(msgs, originalContent, scrubbedContent) ==
    /\ messages' = Append(msgs, AssistantMessage)
    /\ streamCall' = [state |-> "open", conversationId |-> currentConversationId,
                      body |-> StreamBody(originalContent, scrubbedContent)]
    /\ written' = <<>>
    /\ streamRead' = 0
    /\ delivered' = <<>>

\* handlePhase0UseOriginal ("Use Original", or "Continue" when unchanged)
HandlePhase0UseOriginal ==
    /\ ~renderError
    /\ ReviewShown
    /\ phase0State' = PHASE0_IDLE
    /\ RunCouncilStream(messages, phase0State.original, NullText)
    /\ UNCHANGED <<currentConversationId, isLoading, scrubCall, shownId, stored,
                   loadCalls, createCalls, conversations, listCalls, renderError, effectId>>
    /\ UNCHANGED <<verdictVars, annotateVars, summaryVars, backendVars, readerVars>>

\* The last user message stamped with the scrub metadata
Stamped(msgs) ==
    IF FindLastUser(msgs) = 0 THEN msgs
    ELSE [msgs EXCEPT ![FindLastUser(msgs)] =
             [@ EXCEPT !.scrubbedContent = phase0State.scrubbed,
                       !.reasoning = phase0State.reasoning,
                       !.usedScrubbed = TRUE]]

\* handlePhase0UseScrubbed ("Use Scrubbed", offered when the texts differ)
HandlePhase0UseScrubbed ==
    /\ ~renderError
    /\ ReviewShown
    /\ ~Unchanged
    /\ phase0State' = PHASE0_IDLE
    /\ RunCouncilStream(Stamped(messages), phase0State.original, Text(phase0State.scrubbed))
    /\ UNCHANGED <<currentConversationId, isLoading, scrubCall, shownId, stored,
                   loadCalls, createCalls, conversations, listCalls, renderError, effectId>>
    /\ UNCHANGED <<verdictVars, annotateVars, summaryVars, backendVars, readerVars>>

\* handlePhase0Decline ("Cancel")
HandlePhase0Decline ==
    /\ ~renderError
    /\ ReviewShown
    /\ messages' = DropLast(messages, 1)
    /\ phase0State' = PHASE0_IDLE
    /\ isLoading' = FALSE
    /\ UNCHANGED <<currentConversationId, scrubCall, streamCall, shownId, stored,
                   loadCalls, createCalls, conversations, listCalls, streamRead,
                   written, delivered, renderError, effectId>>
    /\ UNCHANGED <<verdictVars, annotateVars, summaryVars, backendVars, readerVars>>

\* The event types the server can send next on a stream that has sent
\* `sent`: the stage events in order, with an error event in place of
\* stage1_complete (no model answered) or of stage3_complete (the chairman
\* call failed)
NextEvents(sent) ==
    IF sent = <<>> THEN {"stage1_start"}
    ELSE LET last == sent[Len(sent)]
         IN  IF last \in {"complete", "error"} THEN {}
             ELSE {EventOrder[Len(sent) + 1]}
                  \cup (IF last \in {"stage1_start", "stage3_start"} THEN {"error"} ELSE {})

\* msg[field] = value, on an object that may not have the field yet
SetField(msg, field, value) ==
    [f \in DOMAIN msg \cup {field} |-> IF f = field THEN value ELSE msg[f]]

\* msg.loading[stage] = value: a TypeError when msg has no loading object
SetLoading(msg, stage, value) ==
    IF "loading" \in DOMAIN msg
    THEN [msg |-> [msg EXCEPT !.loading[stage] = value], threw |-> FALSE]
    ELSE [msg |-> msg, threw |-> TRUE]

\* The updater that the switch of runCouncilStream's onEvent passes to
\* updateLastMessage for a stage event, applied to msg
Updater(eventType, event, msg) ==
    CASE eventType = "stage1_start" -> SetLoading(msg, "stage1", TRUE)
      [] eventType = "stage1_complete" ->
            SetLoading(SetField(msg, "stage1", event.data), "stage1", FALSE)
      [] eventType = "stage2_start" -> SetLoading(msg, "stage2", TRUE)
      [] eventType = "stage2_complete" ->
            SetLoading(SetField(SetField(msg, "stage2", event.data),
                                "metadata", event.metadata), "stage2", FALSE)
      [] eventType = "stage3_start" -> SetLoading(msg, "stage3", TRUE)
      [] eventType = "stage3_complete" ->
            SetLoading(SetField(msg, "stage3", event.data), "stage3", FALSE)

\* The event types the switch has a case for that calls updateLastMessage
UpdatingEvents ==
    {"stage1_start", "stage1_complete", "stage2_start", "stage2_complete",
     "stage3_start", "stage3_complete"}

\* updateLastMessage(updater) on the messages of the conversation shown:
\* the updater is applied in place to the last message, whichever it is;
\* with no message it is applied to undefined and throws
updateLastMessage(msgs, eventType, event) ==
    IF msgs = <<>> THEN [messages |-> msgs, threw |-> TRUE]
    ELSE LET updated == Updater(eventType, event, msgs[Len(msgs)])
         IN  [messages |-> [msgs EXCEPT ![Len(msgs)] = updated.msg],
              threw |-> updated.threw]

\* The event of a type that the server sends on the stream of a conversation
Event(eventType, conversationId) ==
    [type |-> eventType,
     data |-> Payload(eventType, conversationId),
     metadata |-> Payload("metadata", conversationId)]

\* App.jsx sends every query through api.sendMessageStream; api.sendMessage,
\* the call without a stream, has no caller in the client and so no action

\* The server writes the next event to the stream, whether or not the client
\* has read the earlier ones, and also after the client's read failed; when
\* it writes 'complete' it has saved the turn
ServerWrites(eventType) ==
    /\ streamCall.state \in {"open", "threw"}
    /\ eventType \in NextEvents(written)
    /\ written' = Append(written, eventType)
    /\ stored' = IF eventType = "complete"
                 THEN [stored EXCEPT ![streamCall.conversationId] =
                          @ \o StoredTurn(streamCall.conversationId, streamCall.body.content)]
                 ELSE stored
    /\ UNCHANGED <<currentConversationId, messages, isLoading, phase0State, scrubCall,
                   streamCall, shownId, loadCalls, createCalls, conversations, listCalls,
                   streamRead, delivered, renderError, effectId>>
    /\ UNCHANGED <<verdictVars, annotateVars, summaryVars, backendVars, readerVars>>

\* api.sendMessageStream reads the next event the server wrote
Reads(eventType) ==
    /\ streamCall.state = "open"
    /\ streamRead < Len(written)
    /\ eventType = written[streamRead + 1]
    /\ streamRead' = streamRead + 1

\* loadConversations() is called
LoadConversations == listCalls' = listCalls (+) SetToBag({NewListCall})

\* runCouncilStream, the onEvent callback for an event that
\* api.sendMessageStream read whole
OnEvent(eventType) ==
    /\ Reads(eventType)
    /\ delivered' = Append(delivered, eventType)
    /\ IF eventType \in UpdatingEvents /\ ~renderError
       THEN LET updated == updateLastMessage(messages, eventType,
                                             Event(eventType, streamCall.conversationId))
            IN  /\ messages' = updated.messages
                /\ renderError' = updated.threw
       ELSE UNCHANGED <<messages, renderError>>
    /\ IF eventType \in {"title_complete", "complete"}
       THEN LoadConversations
       ELSE UNCHANGED listCalls
    /\ isLoading' = IF eventType \in {"complete", "error"}
                    THEN SetState(isLoading, FALSE)
                    ELSE isLoading
    /\ UNCHANGED <<currentConversationId, phase0State, scrubCall, streamCall, shownId,
                   stored, loadCalls, createCalls, conversations, written, effectId>>
    /\ UNCHANGED <<verdictVars, annotateVars, summaryVars, backendVars, readerVars>>

\* api.sendMessageStream drops an event whose line the network cut into two
\* chunks: JSON.parse fails on the first part, which is logged, and onEvent
\* is not called
EventLost(eventType) ==
    /\ streamRead - Len(delivered) < MaxLost
    /\ Reads(eventType)
    /\ UNCHANGED <<currentConversationId, messages, isLoading, phase0State, scrubCall,
                   streamCall, shownId, stored, loadCalls, createCalls, conversations,
                   listCalls, written, delivered, renderError, effectId>>
    /\ UNCHANGED <<verdictVars, annotateVars, summaryVars, backendVars, readerVars>>

\* runCouncilStream, catch: api.sendMessageStream threw (the fetch failed,
\* the response was not ok, or a read of the body failed, be it after a
\* 'complete' or 'error' event)
StreamThrew ==
    /\ streamCall.state = "open"
    /\ streamCall' = [streamCall EXCEPT !.state = "threw"]
    /\ messages' = SetState(messages, DropLast(messages, 2))
    /\ isLoading' = SetState(isLoading, FALSE)
    /\ UNCHANGED <<currentConversationId, phase0State, scrubCall, shownId, stored,
                   loadCalls, createCalls, conversations, listCalls, streamRead,
                   written, delivered, renderError, effectId>>
    /\ UNCHANGED <<verdictVars, annotateVars, summaryVars, backendVars, readerVars>>

\* api.sendMessageStream returns: reader.read() reported done, all that the
\* server wrote being read, whatever events were delivered before;
\* runCouncilStream does nothing more
StreamClosed ==
    /\ streamCall.state = "open"
    /\ streamRead = Len(written)
    /\ streamCall' = [streamCall EXCEPT !.state = "closed"]
    /\ UNCHANGED <<currentConversationId, messages, isLoading, phase0State, scrubCall,
                   shownId, stored, loadCalls, createCalls, conversations, listCalls,
                   streamRead, written, delivered, renderError, effectId>>
    /\ UNCHANGED <<verdictVars, annotateVars, summaryVars, backendVars, readerVars>>

\* The clicks of the sidebar: "New Conversation", and a conversation of it
SidebarClicks ==
    \/ HandleNewConversation
    \/ \E id \in conversations : HandleSelectConversation(id)

\* The calls of the sidebar in flight: the server handles them, their
\* answers or failures reach the client, and the load effect runs
SidebarCalls ==
    \/ \E call \in BagToSet(listCalls) : ServerLists(call)
    \/ \E call \in BagToSet(listCalls) : ConversationsLoaded(call)
    \/ \E call \in BagToSet(listCalls) : ListFailed(call)
    \/ \E call \in BagToSet(createCalls) : ServerCreates(call)
    \/ \E call \in BagToSet(createCalls) : ConversationCreated(call)
    \/ \E call \in BagToSet(createCalls) : CreateFailed(call)
    \/ LoadEffect
    \/ \E call \in BagToSet(loadCalls) : ServerServes(call)
    \/ \E call \in BagToSet(loadCalls) : ConversationLoaded(call)
    \/ \E call \in BagToSet(loadCalls) : LoadFailed(call)

\* Listing, selecting, creating and loading conversations
ConversationNext == SidebarClicks \/ SidebarCalls

\* The session up to the council stream request, where it ends, for every
\* query and scrub outcome; the sidebar used beside the review and beside the
\* open stream is CouncilSpec's, a query beside an earlier stream SessionSpec's

\* No query was submitted yet; no sidebar call is in flight and none is about
\* to start
NoQueryYet == scrubCall.state = "none"
SidebarAtRest == InFlight = 0 /\ listCalls = EmptyBag /\ EffectsFlushed

\* The sidebar is used first, the input form once its calls have ended
AppNext ==
    \/ (NoQueryYet /\ EffectsFlushed /\ SidebarClicks)
    \/ SidebarCalls
    \/ (SidebarAtRest /\ \E content \in Queries : HandleSendMessage(content))
    \/ \E result \in ScrubResponses(scrubCall.content) : ScrubResolved(result)
    \/ ScrubRejected
    \/ HandlePhase0UseOriginal
    \/ HandlePhase0UseScrubbed
    \/ HandlePhase0Decline

AppSpec == AppInit /\ [][AppNext]_vars

----------------------------------------------------------------------------
(* Specification of runCouncilStream: one query of a session, from its     *)
(* submission to the end of its council stream, with the sidebar in use     *)
(* beside it; every event the server writes is read whole                   *)

\* The query of the turn, and the answer of a scrubber that left it as it is
CouncilQuery == <<"q">>
CouncilScrub == [original |-> CouncilQuery, scrubbed |-> CouncilQuery, reasoning |-> <<>>]

\* The query is submitted and reviewed; "Continue" sends it on, "Cancel"
\* drops it
CouncilReview ==
    \/ (streamCall.state = "none" /\ HandleSendMessage(CouncilQuery))
    \/ ScrubResolved(CouncilScrub)
    \/ HandlePhase0UseOriginal
    \/ HandlePhase0Decline

CouncilNext ==
    \/ ConversationNext
    \/ CouncilReview
    \/ \E eventType \in Range(EventOrder) \cup {"error"} : ServerWrites(eventType)
    \/ \E eventType \in Range(EventOrder) \cup {"error"} : OnEvent(eventType)
    \/ StreamThrew
    \/ StreamClosed

CouncilSpec == AppInit /\ [][CouncilNext]_vars

-----------------------------------------------------------------------------
(* Specification of a council stream whose chunks cut events: the sidebar   *)
(* is clicked before the query is submitted, its calls end at any time, and *)
(* events of the stream are lost                                            *)

LossyNext ==
    \/ (streamCall.state = "none" /\ SidebarClicks)
    \/ SidebarCalls
    \/ (streamCall.state = "none" /\ SidebarAtRest /\ HandleSendMessage(CouncilQuery))
    \/ ScrubResolved(CouncilScrub)
    \/ HandlePhase0UseOriginal
    \/ \E eventType \in Range(EventOrder) \cup {"error"} : ServerWrites(eventType)
    \/ \E eventType \in Range(EventOrder) \cup {"error"} : OnEvent(eventType)
    \/ \E eventType \in Range(EventOrder) \cup {"error"} : EventLost(eventType)
    \/ StreamThrew
    \/ StreamClosed

LossySpec == AppInit /\ [][LossyNext]_vars

-----------------------------------------------------------------------------
(* Specification of a session of several queries: the sidebar is clicked    *)
(* until the council stream is requested, its calls end at any time, and a  *)
(* query is submitted also beside the stream of an earlier one; one scrub   *)
(* call is in flight at a time and one stream is requested                  *)

SessionReview ==
    \/ (scrubCall.state # "pending" /\ HandleSendMessage(CouncilQuery))
    \/ ScrubResolved(CouncilScrub)
    \/ (streamCall.state = "none" /\ HandlePhase0UseOriginal)
    \/ HandlePhase0Decline

SessionNext ==
    \/ (streamCall.state = "none" /\ SidebarClicks)
    \/ SidebarCalls
    \/ SessionReview
    \/ \E eventType \in Range(EventOrder) \cup {"error"} : ServerWrites(eventType)
    \/ \E eventType \in Range(EventOrder) \cup {"error"} : OnEvent(eventType)
    \/ StreamThrew
    \/ StreamClosed

SessionSpec == AppInit /\ [][SessionNext]_vars

----------------------------------------------------------------------------
(* Specification of api.js sendMessageStream: the read loop over the body  *)
(* of the event stream                                                      *)

\* The text of the stream in units: the two halves of the line prefix
\* 'data: ', the two halves of the JSON text of an event of a type, and the
\* line feed
StreamUnit(kind, half, type) == [kind |-> kind, half |-> half, type |-> type]
Prefix(half) == StreamUnit("prefix", half, "")
Json(half, type) == StreamUnit("json", half, type)
LineFeed == StreamUnit("\n", 0, "")

\* One event as the server writes it: data: <json>\n\n
Frame(type) == << Prefix(1), Prefix(2), Json(1, type), Json(2, type), LineFeed, LineFeed >>

RECURSIVE Frames(_)
Frames(types) ==
    IF types = <<>> THEN <<>> ELSE Frame(types[1]) \o Frames(SubSeq(types, 2, Len(types)))

\* chunk.split('\n')
RECURSIVE SplitLines(_, _)
SplitLines(line, rest) ==
    IF rest = <<>> THEN << line >>
    ELSE IF rest[1] = LineFeed
         THEN << line >> \o SplitLines(<<>>, SubSeq(rest, 2, Len(rest)))
         ELSE SplitLines(Append(line, rest[1]), SubSeq(rest, 2, Len(rest)))
split(chunk) == SplitLines(<<>>, chunk)

\* line.startsWith('data: ')
StartsWithData(line) == Len(line) >= 2 /\ line[1] = Prefix(1) /\ line[2] = Prefix(2)

\* JSON.parse(data) succeeds exactly when data is the whole JSON text of
\* one event
Parses(data) == Len(data) = 2 /\ data[1].kind = "json" /\ data[1].half = 1
                    /\ data[2] = Json(2, data[1].type)

\* The event types the loop over the lines of one chunk passes to onEvent: a
\* line counts when it starts with 'data: ' and its rest parses; a parse
\* failure is logged and the line dropped
RECURSIVE EventsOfLines(_)
EventsOfLines(lines) ==
    IF lines = <<>> THEN <<>>
    ELSE LET line == lines[1]
             data == SubSeq(line, 3, Len(line))
         IN  (IF StartsWithData(line) /\ Parses(data) THEN << data[1].type >> ELSE <<>>)
                 \o EventsOfLines(SubSeq(lines, 2, Len(lines)))

\* The streams read: up to MaxSent events of the types that open and close
\* a turn
SentTypes == {"stage1_start", "complete"}
ReaderInit ==
    /\ serverEvents \in SeqsUpTo(SentTypes, MaxSent)
    /\ wire = Frames(serverEvents)
    /\ onEventCalls = <<>>
    /\ readerDone = FALSE
    /\ currentConversationId = 0
    /\ messages = <<>>
    /\ isLoading = FALSE
    /\ phase0State = PHASE0_IDLE
    /\ scrubCall = NoScrubCall
    /\ streamCall = NoStreamCall
    /\ shownId = 0
    /\ stored = <<>>
    /\ loadCalls = EmptyBag
    /\ createCalls = EmptyBag
    /\ conversations = {}
    /\ listCalls = EmptyBag
    /\ written = <<>>
    /\ streamRead = 0
    /\ delivered = <<>>
    /\ renderError = FALSE
    /\ effectId = 0
    /\ SummaryIdleAll
    /\ BackendIdle

\* One turn of the while loop: reader.read() returns the next n units of
\* the stream as one chunk, whose lines are handled on their own
ReadChunk(n) ==
    /\ ~readerDone
    /\ n \in 1..Len(wire)
    /\ onEventCalls' = onEventCalls \o EventsOfLines(split(SubSeq(wire, 1, n)))
    /\ wire' = SubSeq(wire, n + 1, Len(wire))
    /\ UNCHANGED <<serverEvents, readerDone>>
    /\ UNCHANGED <<verdictVars, annotateVars, summaryVars, appVars, backendVars>>

\* reader.read() reports done: the loop breaks
ReadDone ==
    /\ ~readerDone
    /\ wire = <<>>
    /\ readerDone' = TRUE
    /\ UNCHANGED <<serverEvents, wire, onEventCalls>>
    /\ UNCHANGED <<verdictVars, annotateVars, summaryVars, appVars, backendVars>>

ReaderNext == (\E n \in 1..Len(wire) : ReadChunk(n)) \/ ReadDone

ReaderSpec == ReaderInit /\ [][ReaderNext]_vars

----------------------------------------------------------------------------
(* Specification of calculate_aggregate_rankings over the input space *)

FrontendIdle ==
    /\ SummaryIdleAll
    /\ AppIdle

RankingInit ==
    /\ votes \in VoteInputs
    /\ aggregate = NoAggregate
    /\ TurnIdle
    /\ FrontendIdle

\* stage 2 of a turn: aggregate_rankings = calculate_aggregate_rankings(...)
Aggregate ==
    /\ ~aggregate.done
    /\ aggregate' = [done |-> TRUE, entries |-> calculate_aggregate_rankings(votes)]
    /\ UNCHANGED <<votes, turnVars, verdictVars, annotateVars, summaryVars, appVars, readerVars>>

RankingNext == Aggregate

RankingSpec == RankingInit /\ [][RankingNext]_vars

----------------------------------------------------------------------------
(* Specification of the streamed turns of one conversation (main.py)        *)

TurnInit ==
    /\ TurnIdle
    /\ RankIdle
    /\ FrontendIdle

\* what a step of the pipeline leaves alone besides the turn's own state
TurnFrame == UNCHANGED <<rankVars, verdictVars, annotateVars, summaryVars, appVars, readerVars>>

Emit(type) == events' = Append(events, type)

\* POST .../message/stream: a new turn begins and stage1_start is yielded
StartTurn ==
    /\ pc \in {"idle", "done", "failed", "aborted"}
    /\ turn < MaxTurns
    /\ turn' = turn + 1
    /\ events' = <<"stage1_start">>
    /\ pc' = "stage1"
    /\ stage25Outcome' = "none"
    /\ verification_results' = <<>>
    /\ UNCHANGED <<settled_facts, verifiedEver>>
    /\ TurnFrame

\* Stage 1 returned at least one usable response
Stage1Complete ==
    /\ pc = "stage1"
    /\ Emit("stage1_complete")
    /\ pc' = "stage2_begin"
    /\ UNCHANGED <<turn, stage25Outcome, verification_results, settled_facts, verifiedEver>>
    /\ TurnFrame

\* Stage 1 returned no usable response: fatal to the turn
Stage1Empty ==
    /\ pc = "stage1"
    /\ Emit("error")
    /\ pc' = "failed"
    /\ UNCHANGED <<turn, stage25Outcome, verification_results, settled_facts, verifiedEver>>
    /\ TurnFrame

Stage2Start ==
    /\ pc = "stage2_begin"
    /\ Emit("stage2_start")
    /\ pc' = "stage2"
    /\ UNCHANGED <<turn, stage25Outcome, verification_results, settled_facts, verifiedEver>>
    /\ TurnFrame

Stage2Complete ==
    /\ pc = "stage2"
    /\ Emit("stage2_complete")
    /\ pc' = "stage25_begin"
    /\ UNCHANGED <<turn, stage25Outcome, verification_results, settled_facts, verifiedEver>>
    /\ TurnFrame

Stage25Start ==
    /\ pc = "stage25_begin"
    /\ Emit("stage25_start")
    /\ pc' = "stage25"
    /\ UNCHANGED <<turn, stage25Outcome, verification_results, settled_facts, verifiedEver>>
    /\ TurnFrame

\* stage25_verify_claims returned `results`
Stage25Verified(results) ==
    /\ pc = "stage25"
    /\ verification_results' = results
    /\ stage25Outcome' = "verified"
    /\ verifiedEver' = verifiedEver \cup
           {results[i].claim : i \in {j \in 1..Len(results) : results[j].status = "VERIFIED"}}
    /\ Emit("stage25_complete")
    /\ pc' = "stage3_begin"
    /\ UNCHANGED <<turn, settled_facts>>
    /\ TurnFrame

\* Variant of Stage25Failed in which the verifier's failure ends the turn
Stage25Failed_fatal ==
    /\ pc = "stage25"
    /\ verification_results' = <<>>
    /\ stage25Outcome' = "failed"
    /\ Emit("error")
    /\ pc' = "failed"
    /\ UNCHANGED <<turn, settled_facts, verifiedEver>>
    /\ TurnFrame

\* The verifier raised, or there is no search capability: the try/except
\* around Stage 2.5 leaves verification_results at its default []
Stage25Failed ==
    /\ pc = "stage25"
    /\ verification_results' = <<>>
    /\ stage25Outcome' = "failed"
    /\ Emit("stage25_complete")
    /\ pc' = "stage3_begin"
    /\ UNCHANGED <<turn, settled_facts, verifiedEver>>
    /\ TurnFrame

Stage3Start ==
    /\ pc = "stage3_begin"
    /\ Emit("stage3_start")
    /\ pc' = "stage3"
    /\ UNCHANGED <<turn, stage25Outcome, verification_results, settled_facts, verifiedEver>>
    /\ TurnFrame

\* Variant of Stage3Complete that goes on after the chairman's call failed
Stage3Failed_continues ==
    /\ pc = "stage3"
    /\ Emit("error")
    /\ pc' = "save"
    /\ UNCHANGED <<turn, stage25Outcome, verification_results, settled_facts, verifiedEver>>
    /\ TurnFrame

\* The chairman's call failed: fatal to the turn
Stage3Failed ==
    /\ pc = "stage3"
    /\ Emit("error")
    /\ pc' = "failed"
    /\ UNCHANGED <<turn, stage25Outcome, verification_results, settled_facts, verifiedEver>>
    /\ TurnFrame

\* stage3_synthesize_final returned the final answer
Stage3Complete ==
    /\ pc = "stage3"
    /\ Emit("stage3_complete")
    /\ pc' = "save"
    /\ UNCHANGED <<turn, stage25Outcome, verification_results, settled_facts, verifiedEver>>
    /\ TurnFrame

\* After Stage 3: build_new_settled_facts() and add_settled_facts()
SaveSettledFacts ==
    /\ pc = "save"
    /\ settled_facts' = add_settled_facts(settled_facts,
                            build_new_settled_facts(verification_results, turn))
    /\ pc' = "title"
    /\ UNCHANGED <<turn, events, stage25Outcome, verification_results, verifiedEver>>
    /\ TurnFrame

TitleComplete ==
    /\ pc = "title"
    /\ Emit("title_complete")
    /\ pc' = "finish"
    /\ UNCHANGED <<turn, stage25Outcome, verification_results, settled_facts, verifiedEver>>
    /\ TurnFrame

Complete ==
    /\ pc = "finish"
    /\ Emit("complete")
    /\ pc' = "done"
    /\ UNCHANGED <<turn, stage25Outcome, verification_results, settled_facts, verifiedEver>>
    /\ TurnFrame

\* the steps the backend takes on its own once a turn has begun
TurnProgress ==
    \/ Stage1Complete
    \/ Stage1Empty
    \/ Stage2Start
    \/ Stage2Complete
    \/ Stage25Start
    \/ \E results \in VerificationLists : Stage25Verified(results)
    \/ Stage25Failed
    \/ Stage3Start
    \/ Stage3Failed
    \/ Stage3Complete
    \/ SaveSettledFacts
    \/ TitleComplete
    \/ Complete

\* The pipeline of a turn is aborted at some step (the request is
\* cancelled): the turn is not resumed and nothing more of it is persisted
Abort ==
    /\ pc \notin {"idle", "done", "failed", "aborted"}
    /\ pc' = "aborted"
    /\ UNCHANGED <<turn, events, stage25Outcome, verification_results, settled_facts,
                   verifiedEver>>
    /\ TurnFrame

TurnNext == StartTurn \/ TurnProgress \/ Abort

\* A turn runs on step by step, ends, or is aborted at any of its steps
TurnSpec == TurnInit /\ [][TurnNext]_vars

----------------------------------------------------------------------------
(* The verdict rules as the specification words them, stated over the      *)
(* inputs held in stage25 and stage1                                       *)

Computed == verdict # "pending"

VerifStatuses == {stage25.items[i].status : i \in 1..Len(stage25.items)}

\* the verification results do not decide the verdict
FallThrough ==
    \/ VerifStatuses = {}
    \/ VerifStatuses = {"UNVERIFIABLE"}
    \/ ("CONTESTED" \in VerifStatuses /\ "CONTRADICTED" \notin VerifStatuses)

HasResponses == ~stage1.isNull /\ Len(stage1.items) > 0

Models == 1..Len(stage1.items)

\* the set of normalized factual claims of model i
ClaimSet(i) ==
    IF stage1.items[i].factual_claims.isArray
    THEN {normalize(c) : c \in Range(stage1.items[i].factual_claims.items)}
    ELSE {}

ClaimUnion == UNION {ClaimSet(i) : i \in Models}

SharedClaims == {c \in ClaimUnion : \E i, j \in Models : i # j /\ c \in ClaimSet(i) /\ c \in ClaimSet(j)}

\* overlap ratio >= 0.5 (the ratio exists only when some claim is listed)
OverlapRatioAtLeastHalf ==
    ClaimUnion # {} /\ 2 * Cardinality(SharedClaims) >= Cardinality(ClaimUnion)

Declared == {i \in Models : stage1.items[i].confidence # NoConf}

RECURSIVE ConfSum(_)
ConfSum(S) ==
    IF S = {} THEN 0
    ELSE LET i == CHOOSE x \in S : TRUE
         IN  stage1.items[i].confidence + ConfSum(S \ {i})

\* mean declared confidence < t, and >= t (a mean exists only when some
\* confidence is declared)
MeanBelow(t) == Declared # {} /\ ConfSum(Declared) < t * Cardinality(Declared)
MeanAtLeast(t) == Declared # {} /\ ConfSum(Declared) >= t * Cardinality(Declared)

ConsensusCondition == OverlapRatioAtLeastHalf /\ MeanAtLeast(65)

----------------------------------------------------------------------------
(* Claims about calcVerdict, checked under VerdictSpec *)

\* C1: a CONTRADICTED verification result makes the verdict 'Disputed',
\* whatever the other results and the Stage 1 responses are.
C1_ContradictedIsDisputed ==
    (Computed /\ "CONTRADICTED" \in VerifStatuses) => verdict = "Disputed"

C1_Witness ==
    /\ verdict = "Disputed"
    /\ VerifStatuses = {"CONTRADICTED", "VERIFIED"}
    /\ stage1.isNull

\* C2: with no CONTRADICTED result, some result other than UNVERIFIABLE and
\* every such result VERIFIED, the verdict is 'Verified'; 'Verified' is never
\* returned when a result is CONTESTED or when no result is VERIFIED.
C2_AllActionableVerified ==
    Computed =>
        /\ (VerifStatuses \in {{"VERIFIED"}, {"VERIFIED", "UNVERIFIABLE"}}
               => verdict = "Verified")
        /\ (verdict = "Verified"
               => "CONTESTED" \notin VerifStatuses /\ "VERIFIED" \in VerifStatuses)

C2_Witness ==
    /\ verdict = "Verified"
    /\ VerifStatuses = {"VERIFIED", "UNVERIFIABLE"}
    /\ HasResponses
    /\ MeanBelow(50)

\* C3 as stated: in the fall-through step with a Stage 1 response, the verdict
\* is 'Consensus' exactly when the overlap ratio is >= 0.5 and the mean
\* declared confidence is >= 65.
C3_Original ==
    (Computed /\ FallThrough /\ HasResponses)
        => (verdict = "Consensus" <=> ConsensusCondition)

\* C3 amended: in the fall-through step with a Stage 1 response, the verdict
\* is 'Consensus' exactly when the mean declared confidence is >= 65 and
\* either the overlap ratio is >= 0.5 or no model lists any factual claim.
C3_ConsensusIff ==
    (Computed /\ FallThrough /\ HasResponses)
        => (verdict = "Consensus"
               <=> (MeanAtLeast(65) /\ (OverlapRatioAtLeastHalf \/ ClaimUnion = {})))

C3_Witness ==
    /\ verdict = "Consensus"
    /\ FallThrough
    /\ Len(stage1.items) = 2
    /\ ConfSum(Declared) = 130
    /\ Cardinality(ClaimUnion) = 2
    /\ Cardinality(SharedClaims) = 1

\* C4 as stated: in the fall-through step with a Stage 1 response, when the
\* Consensus condition does not hold the verdict is 'Uncertain' if the mean
\* declared confidence is below 55 and 'Split' otherwise, with or without
\* factual claims.
C4_Original ==
    (Computed /\ FallThrough /\ HasResponses /\ ~ConsensusCondition)
        => verdict = (IF MeanBelow(55) THEN "Uncertain" ELSE "Split")

\* C4 amended: in the fall-through step with a Stage 1 response, when some
\* model lists a factual claim and the Consensus condition does not hold, the
\* verdict is 'Uncertain' if the mean declared confidence is below 55 and
\* 'Split' otherwise; when no model lists a claim, it is 'Uncertain' if the
\* mean is below 50, 'Consensus' if the mean is at least 65, and 'Split'
\* otherwise.
C4_UncertainOrSplit ==
    (Computed /\ FallThrough /\ HasResponses)
        => /\ (ClaimUnion # {} /\ ~ConsensusCondition)
                 => verdict = (IF MeanBelow(55) THEN "Uncertain" ELSE "Split")
           /\ ClaimUnion = {}
                 => verdict = (IF MeanBelow(50) THEN "Uncertain"
                               ELSE IF MeanAtLeast(65) THEN "Consensus"
                               ELSE "Split")

C4_Witness ==
    /\ verdict = "Uncertain"
    /\ FallThrough
    /\ HasResponses
    /\ ClaimUnion # {}
    /\ OverlapRatioAtLeastHalf
    /\ MeanAtLeast(50)
    /\ MeanBelow(55)

\* C5: in the fall-through step, a mean declared confidence below 50 gives
\* 'Uncertain' whatever the claim overlap is.
C5_LowConfidenceUncertain ==
    (Computed /\ FallThrough /\ HasResponses /\ MeanBelow(50))
        => verdict = "Uncertain"

C5_Witness ==
    /\ verdict = "Uncertain"
    /\ FallThrough
    /\ HasResponses
    /\ MeanBelow(50)
    /\ ClaimUnion # {}
    /\ SharedClaims = ClaimUnion

\* C6: the verdict is 'Unknown' exactly when the verification results do not
\* decide it and the Stage 1 list is missing or empty.
C6_UnknownIff ==
    Computed =>
        (verdict = "Unknown"
            <=> /\ "CONTRADICTED" \notin VerifStatuses
                /\ VerifStatuses \notin {{"VERIFIED"}, {"VERIFIED", "UNVERIFIABLE"}}
                /\ ~HasResponses)

C6_Witness ==
    /\ verdict = "Unknown"
    /\ "CONTESTED" \in VerifStatuses
    /\ ~stage1.isNull
    /\ stage1.items = <<>>

----------------------------------------------------------------------------
(* Reading an annotated text back: the markers it holds *)

Out == annotated.text

UnitsOf(tokens) == [i \in 1..Len(tokens) |-> tokens[i].unit]

\* an opening tag starts at index i of the token sequence
IsOpenAt(tokens, i) ==
    /\ i + 5 <= Len(tokens)
    /\ UnitsOf(SubSeq(tokens, i, i + 5)) = <<"<", "s", "p", "a", "n", "attrs">>

\* a closing tag starts at index i
IsCloseAt(tokens, i) ==
    /\ i + 6 <= Len(tokens)
    /\ UnitsOf(SubSeq(tokens, i, i + 6)) = <<"<", "/", "s", "p", "a", "n", ">">>

RECURSIVE StripFrom(_, _)
\* the units of the text from index i on with every tag left out
StripFrom(tokens, i) ==
    IF i > Len(tokens) THEN <<>>
    ELSE IF IsOpenAt(tokens, i) THEN StripFrom(tokens, i + 6)
    ELSE IF IsCloseAt(tokens, i) THEN StripFrom(tokens, i + 7)
    ELSE <<tokens[i].unit>> \o StripFrom(tokens, i + 1)

StripTags(tokens) == StripFrom(tokens, 1)

\* index of the first closing tag at or after i (Len + 1 when there is none)
CloseFrom(tokens, i) ==
    LET at == {j \in i..Len(tokens) : IsCloseAt(tokens, j)}
    IN  IF at = {} THEN Len(tokens) + 1 ELSE CHOOSE j \in at : \A k \in at : j <= k

RECURSIVE MarkersFrom(_, _)
\* the markers from index i on, left to right: claimIdx, status and the
\* content between the opening tag and the next closing tag
MarkersFrom(tokens, i) ==
    IF i > Len(tokens) THEN <<>>
    ELSE IF IsOpenAt(tokens, i)
    THEN LET close == CloseFrom(tokens, i + 6)
         IN  <<[claimIdx |-> tokens[i + 5].claimIdx,
                status |-> tokens[i + 5].status,
                content |-> UnitsOf(SubSeq(tokens, i + 6, close - 1))]>>
             \o MarkersFrom(tokens, close + 7)
    ELSE MarkersFrom(tokens, i + 1)

Markers(tokens) == MarkersFrom(tokens, 1)

Results == stage25Results.items

\* the result a claimIdx names
ResultAt(claimIdx) == Results[claimIdx + 1]

\* offsets of the answer text where claim occurs, case ignored
Occurrences(claim) ==
    {p \in 0..(Len(responseText) - Len(claim)) :
        toLowerCase(SubSeq(responseText, p + 1, p + Len(claim))) = toLowerCase(claim)}

\* the ranges taken by the replacements, as sets of offsets of the text
Covered(rep) == {p \in 0..(Len(responseText) - 1) : rep.start <= p /\ p < rep.end}

----------------------------------------------------------------------------
(* Claims about annotateChairmanText, checked under AnnotateSpec *)

\* C7: the character ranges of the original text wrapped in markers are
\* pairwise disjoint: no character of the text lies inside two markers, and
\* there is one marker per range.
C7_MarkersDisjoint ==
    annotated.phase = "returned" =>
        /\ \A i, j \in 1..Len(replacements) :
              i # j => /\ Covered(replacements[i]) \cap Covered(replacements[j]) = {}
                       /\ \/ replacements[i].end <= replacements[j].start
                          \/ replacements[j].end <= replacements[i].start
        /\ \A i \in 1..Len(replacements) : replacements[i].start < replacements[i].end
        /\ Cardinality({k \in 1..Len(Out) : Out[k].unit = "attrs"}) = Len(replacements)

C7_Witness ==
    /\ annotated.phase = "returned"
    /\ responseText = <<"a", "B", "a">>
    /\ Len(Results) = 2
    /\ Results[1].claim = <<"a">> /\ Results[1].status = "VERIFIED"
    /\ Results[2].claim = <<"a", "b">> /\ Results[2].status = "CONTESTED"
    /\ Len(replacements) = 2
    /\ replacements[1].start = 2
    /\ replacements[2].start = 0

\* C8: for every marker produced, the wrapped content is the substring of the
\* original text at the matched [start, end) offsets and equals the claim
\* text up to case, and deleting the inserted tags gives the original text.
C8_OffsetsPreserved ==
    annotated.phase = "returned" =>
        /\ StripTags(Out) = responseText
        /\ Len(Markers(Out)) = Len(replacements)
        /\ \A k \in 1..Len(Markers(Out)) :
              LET m == Markers(Out)[k]
                  rep == replacements[Len(replacements) + 1 - k]
              IN  /\ m.claimIdx = rep.claimIdx
                  /\ m.content = SubSeq(responseText, Min(rep.start, Len(responseText)) + 1,
                                        Min(rep.end, Len(responseText)))
                  /\ toLowerCase(m.content) = toLowerCase(ResultAt(m.claimIdx).claim)

\* the results the matching loop tries: actionable, with a non-empty claim
Candidates ==
    {i \in 1..Len(Results) :
        /\ Results[i].status \in {"VERIFIED", "CONTRADICTED", "CONTESTED"}
        /\ Results[i].hasClaim
        /\ Results[i].claim # <<>>}

\* longest first: j is matched before i (equally long claims in list order)
Earlier(j, i) ==
    \/ Len(Results[j].claim) > Len(Results[i].claim)
    \/ (Len(Results[j].claim) = Len(Results[i].claim) /\ j < i)

RECURSIVE Place(_)
\* the offset where result i belongs: its leftmost occurrence in the answer
\* text that overlaps no span of a result matched before it; -1 when none
Place(i) ==
    LET blockers == {j \in Candidates : Earlier(j, i) /\ Place(j) # -1}
        free == {p \in Occurrences(Results[i].claim) :
                    \A j \in blockers :
                        \/ p + Len(Results[i].claim) <= Place(j)
                        \/ Place(j) + Len(Results[j].claim) <= p}
    IN  IF free = {} THEN -1 ELSE CHOOSE p \in free : \A q \in free : p <= q

\* C9: claims are matched longest first (equally long ones in list order):
\* every actionable claim is marked at its leftmost occurrence, case ignored,
\* that overlaps no span taken by a claim matched before it, and is left
\* unmarked only when it has no such occurrence; so the longest actionable
\* claim that occurs in the text is marked at its first occurrence.
C9_LongestFirstPlacement ==
    annotated.phase = "returned" =>
        \A i \in Candidates :
            LET mine == {k \in 1..Len(replacements) : replacements[k].claimIdx = i - 1}
            IN  IF Place(i) = -1 THEN mine = {}
                ELSE \E k \in mine : replacements[k].start = Place(i)

\* the results with index k (0-based) left out
Without(items, k) == SubSeq(items, 1, k) \o SubSeq(items, k + 2, Len(items))

\* replacements of the shorter list, renumbered to the indices of the full one
Renumbered(reps, k) ==
    [n \in 1..Len(reps) |->
        [reps[n] EXCEPT !.claimIdx = IF @ >= k THEN @ + 1 ELSE @]]

AttrsAt == {n \in 1..Len(Out) : Out[n].unit = "attrs"}

\* C10: a marker is produced for a result only if its status is VERIFIED,
\* CONTRADICTED or CONTESTED and its claim text occurs in the answer, case
\* ignored, and at most one per result; a result that gets no marker raises
\* no error (every actionable result carrying a claim text) and leaves the
\* markers of the others as they are without it; when nothing matches the
\* text is returned unchanged.
C10_UnmatchedLeftUnmarked ==
    /\ (annotated.phase # "pending"
          /\ \A i \in 1..Len(Results) :
                Results[i].status \in {"VERIFIED", "CONTRADICTED", "CONTESTED"}
                    => Results[i].hasClaim)
          => annotated.phase = "returned"
    /\ annotated.phase = "returned" =>
          /\ \A n \in AttrsAt :
                /\ Out[n].claimIdx \in 0..(Len(Results) - 1)
                /\ ResultAt(Out[n].claimIdx).status
                       \in {"VERIFIED", "CONTRADICTED", "CONTESTED"}
                /\ Out[n].status = StatusLower(ResultAt(Out[n].claimIdx).status)
                /\ Occurrences(ResultAt(Out[n].claimIdx).claim) # {}
          /\ \A n1, n2 \in AttrsAt : Out[n1].claimIdx = Out[n2].claimIdx => n1 = n2
          /\ \A k \in 0..(Len(Results) - 1) :
                (\A n \in AttrsAt : Out[n].claimIdx # k)
                    => replacements =
                          Renumbered(MatchedReplacements(responseText,
                                                         Arr(Without(Results, k))), k)
          /\ AttrsAt = {} => Out = AsTokens(responseText)

C10_Witness ==
    /\ annotated.phase = "returned"
    /\ Len(Results) = 2
    /\ Results[1].status = "CONTRADICTED" /\ Results[1].claim = <<"B", "a">>
    /\ Results[2].status = "VERIFIED" /\ Results[2].claim = <<"a", "b">>
    /\ responseText = <<"a", "B", "B">>
    /\ Cardinality(AttrsAt) = 1
    /\ \E n \in AttrsAt : Out[n].claimIdx = 1

----------------------------------------------------------------------------
(* The rendered message: what the summary components compute and what they  *)
(* leave alone                                                              *)

\* C11: the reliability verdict is display-only: the step in which
\* EpistemicSummary computes calcVerdict (with the peer alignment and the
\* confidence range) leaves the Stage 1 responses, the verification results,
\* the aggregate rankings, the final answer text and the chairman model id
\* as they were.
C11_VerdictDisplayOnly ==
    [][verdict' # verdict =>
          /\ stage1' = stage1
          /\ stage25' = stage25
          /\ aggregateRankings' = aggregateRankings
          /\ stage3'.response = stage3.response
          /\ stage3'.model = stage3.model]_vars

\* A message with a contradicted claim and a chairman was rendered Disputed
C11_Witness ==
    /\ verdict = "Disputed"
    /\ stage25 = Arr(<<[status |-> "CONTRADICTED"]>>)
    /\ stage1 # Null
    /\ stage3 = [model |-> ModelId(2), response |-> <<"a", "B">>]
    /\ ~aggregateRankings.isNull /\ Len(aggregateRankings.items) = 2

\* the entries of the aggregate rankings given to the components
Ranked == aggregateRankings.items

\* the spread of the aggregate rankings: highest minus lowest average rank
RankSpread ==
    LET ranks == [i \in 1..Len(Ranked) |-> Ranked[i].average_rank]
    IN  MaxOf(ranks) - MinOf(ranks)

\* C19: Peer Alignment follows the spread of the aggregate rankings given to
\* calcPeerAlignment: a spread of at most 0.3 gives Unanimous, of at most 0.8
\* Majority, a larger one Split, whatever the reliability verdict is.
C19_PeerAlignmentFromSpread ==
    (peerAlignment # "pending" /\ ~aggregateRankings.isNull /\ Len(Ranked) >= 2) =>
        peerAlignment = (IF RankSpread <= 30 THEN "Unanimous"
                         ELSE IF RankSpread <= 80 THEN "Majority"
                         ELSE "Split")

\* the entries whose average rank exceeds every other entry's by more than 0.5
Outliers ==
    {i \in 1..Len(Ranked) :
        \A j \in 1..Len(Ranked) :
            j # i => Ranked[i].average_rank - Ranked[j].average_rank > 50}

\* C20: getMinorityModel returns a model if and only if there are at least
\* two entries and the worst average rank exceeds the second-worst by
\* strictly more than 0.5, and then it is the worst-ranked model; with fewer
\* than two entries, a gap of 0.5 or less, or a tie for worst, it returns null.
C20_MinorityIff ==
    minorityModel # "pending" =>
        IF ~aggregateRankings.isNull /\ Len(Ranked) >= 2 /\ Outliers # {}
        THEN \E i \in Outliers : minorityModel = Ranked[i].model
        ELSE minorityModel = NullModel

\* Of three entries the second is worst by 0.75 and was returned
C20_Witness ==
    /\ aggregateRankings = Arr(<< [model |-> ModelId(1), average_rank |-> 100],
                                  [model |-> ModelId(2), average_rank |-> 200],
                                  [model |-> ModelId(3), average_rank |-> 125] >>)
    /\ minorityModel = ModelId(2)

----------------------------------------------------------------------------
(* The Phase 0 review flow of App.jsx                                       *)

\* the transitions of the review flow: send, scrub returned, scrub failed,
\* and use original / use scrubbed / cancel
Phase0Edges ==
    { <<"idle", "scrubbing">>, <<"scrubbing", "pending">>,
      <<"scrubbing", "idle">>, <<"pending", "idle">> }

\* a step of one of the three review actions
ReviewAction ==
    HandlePhase0UseOriginal \/ HandlePhase0UseScrubbed \/ HandlePhase0Decline

\* C12: the Phase 0 review state is always one of idle, scrubbing, pending;
\* it changes only along idle->scrubbing, scrubbing->pending,
\* scrubbing->idle and pending->idle; whenever it is pending it holds the
\* original, scrubbed and reasoning values the scrub call just returned; and
\* use original, use scrubbed and cancel are only taken in the pending state.
C12_Phase0StateMachine ==
    /\ [](phase0State.status \in {"idle", "scrubbing", "pending"})
    /\ [](phase0State.status = "pending" =>
             /\ scrubCall.state = "resolved"
             /\ phase0State.original = scrubCall.result.original
             /\ phase0State.scrubbed = scrubCall.result.scrubbed
             /\ phase0State.reasoning = scrubCall.result.reasoning)
    /\ [][phase0State'.status # phase0State.status =>
             <<phase0State.status, phase0State'.status>> \in Phase0Edges]_vars
    /\ [][ReviewAction => phase0State.status = "pending"]_vars

\* C13: every council stream request carries in `content` the query exactly
\* as the user submitted it, for Use Original and for Use Scrubbed alike; the
\* scrubbed text travels only in `scrubbed_content`.
C13_ContentIsOriginal ==
    [][(streamCall' # streamCall /\ streamCall'.state = "open") =>
          /\ streamCall'.body.content = scrubCall.content
          /\ ~streamCall'.body.scrubbed_content.isNull =>
                 streamCall'.body.scrubbed_content.text = scrubCall.result.scrubbed]_vars

\* A request was sent after Use Scrubbed: content " q", scrubbed_content "s"
C13_Witness ==
    /\ streamCall.state = "open"
    /\ streamCall.body = [content |-> <<" ", "q">>, scrubbed_content |-> Text(<<"s">>)]
    /\ scrubCall.content = <<" ", "q">>
    /\ Len(messages) = 2
    /\ messages[1].role = "user"
    /\ messages[1].usedScrubbed

\* C14: a failed scrub call does not block the turn: the flow falls back to
\* the original query with empty reasoning (the review holds the query as
\* both texts), the query stays in the conversation and can go on to the
\* council.
C14_ScrubFailureFallsBack ==
    [][(scrubCall.state = "pending" /\ scrubCall'.state = "rejected") =>
          /\ phase0State' = [status |-> "pending", original |-> scrubCall.content,
                             scrubbed |-> scrubCall.content, reasoning |-> <<>>]
          /\ messages' = messages]_vars

----------------------------------------------------------------------------
(* The backend's turn: progress events, Stage 2.5 isolation, aggregate      *)
(* rankings and settled facts                                               *)

\* s is an initial part of the fixed order of progress events
IsOrderPrefix(s) ==
    /\ Len(s) <= Len(EventOrder)
    /\ s = SubSeq(EventOrder, 1, Len(s))

Emitted(type) == type \in Range(events)

\* C15: the events of a turn are emitted in the fixed order stage1_start,
\* stage1_complete, stage2_start, stage2_complete, stage25_start,
\* stage25_complete, stage3_start, stage3_complete, title_complete, complete,
\* each at most once and none before its predecessor; an error event can
\* follow any of them and is the last event of its turn.
C15_EventOrder ==
    \/ IsOrderPrefix(events)
    \/ /\ events # <<>>
       /\ events[Len(events)] = "error"
       /\ IsOrderPrefix(SubSeq(events, 1, Len(events) - 1))

\* A second turn ran through all ten events
C15_Witness ==
    /\ events = EventOrder
    /\ pc = "done"
    /\ turn = 2

\* The step in which Stage 2.5 fails
Stage25Fails == stage25Outcome # "failed" /\ stage25Outcome' = "failed"

VotersFor(m) ==
    {voter \in Range(Council) \ {m} :
        /\ Range(votes[voter]) = Range(Council) \ {voter}
        /\ Len(votes[voter]) = MaxCouncil - 1
        /\ m \in Range(votes[voter])}

RECURSIVE PositionSum(_, _)
\* the sum of the positions m has in the votes of the voters in S
PositionSum(m, S) ==
    IF S = {} THEN 0
    ELSE LET voter == CHOOSE x \in S : TRUE
         IN  PositionOf(m, votes[voter]) + PositionSum(m, S \ {voter})

EntriesOf(m) ==
    {i \in 1..Len(aggregate.entries) : aggregate.entries[i].model = m}

\* C17: each model's average rank is the sum of the 1-indexed positions it
\* received in the other models' votes divided by the number of those votes
\* (not by N-1); a vote a model cast for itself is not counted; a model that
\* received no vote has no entry in the aggregate.
C17_AverageOfReceived ==
    aggregate.done =>
        \A m \in Range(Council) :
            IF VotersFor(m) = {}
            THEN EntriesOf(m) = {}
            ELSE /\ Cardinality(EntriesOf(m)) = 1
                 /\ \A i \in EntriesOf(m) :
                        /\ aggregate.entries[i].position_sum = PositionSum(m, VotersFor(m))
                        /\ aggregate.entries[i].rankings_count = Cardinality(VotersFor(m))

\* m1 ranked itself first, m3's answer did not parse: only the vote of m2
\* counts, m2 received no vote and has no entry
C17_Witness ==
    /\ votes = [voter \in Range(Council) |->
                   CASE voter = ModelId(1) -> <<ModelId(1), ModelId(3)>>
                     [] voter = ModelId(2) -> <<ModelId(1), ModelId(3)>>
                     [] OTHER -> <<>>]
    /\ aggregate.done
    /\ aggregate.entries =
           << [model |-> ModelId(1), position_sum |-> 1, rankings_count |-> 1],
              [model |-> ModelId(3), position_sum |-> 2, rankings_count |-> 1] >>

\* s is an initial part of t
IsPrefix(s, t) == Len(s) <= Len(t) /\ s = SubSeq(t, 1, Len(s))

\* C18: over the turns of a conversation the settled-fact list only grows,
\* no fact being removed or altered; it holds only claims that resolved
\* VERIFIED in some turn; no two facts have the same claim text; and facts
\* are appended only after the turn's Stage 3.
C18_SettledFacts ==
    /\ [][IsPrefix(settled_facts, settled_facts')]_vars
    /\ [](\A i \in 1..Len(settled_facts) : settled_facts[i].text \in verifiedEver)
    /\ [](\A i, j \in 1..Len(settled_facts) :
             settled_facts[i].text = settled_facts[j].text => i = j)
    /\ [][settled_facts' # settled_facts => Emitted("stage3_complete")]_vars

\* The second turn verified f1 again and f2: only f2 was appended
C18_Witness ==
    /\ settled_facts = << [text |-> "f1", source_turn |-> 1],
                          [text |-> "f2", source_turn |-> 2] >>
    /\ verification_results = << [claim |-> "f1", status |-> "VERIFIED"],
                                 [claim |-> "f2", status |-> "VERIFIED"] >>
    /\ turn = 2

----------------------------------------------------------------------------
(* calcVerdict and the order of its lists                                   *)

\* the sequences that hold the elements of s in some order
Reordered(s) == {[i \in 1..Len(s) |-> s[p[i]]] : p \in Orderings(1..Len(s))}

\* a response with its claims in some order
ReorderedInside(r) ==
    IF r.factual_claims.isArray
    THEN {[r EXCEPT !.factual_claims.items = c] : c \in Reordered(r.factual_claims.items)}
    ELSE {r}

RECURSIVE EachReorderedInside(_)
EachReorderedInside(list) ==
    IF list = <<>> THEN {<<>>}
    ELSE {<<h>> \o t : h \in ReorderedInside(Head(list)),
                       t \in EachReorderedInside(Tail(list))}

\* a Stage 1 list in some order, the claims of each response in some order
ReorderedStage1(list) == UNION {EachReorderedInside(l) : l \in Reordered(list)}

\* C22: calcVerdict is order-independent: for every permutation of the
\* verification-result list and every permutation of the Stage 1 response
\* list (and of the claims inside each response) it returns the same verdict.
C22_OrderIndependent ==
    Computed =>
        \A s25 \in Reordered(stage25.items), s1 \in ReorderedStage1(stage1.items) :
            calcVerdict([stage25 EXCEPT !.items = s25], [stage1 EXCEPT !.items = s1])
                = verdict

----------------------------------------------------------------------------
(* The markers of annotateChairmanText as Stage3Annotated reads them back    *)

\* C23: every marker carries as data-claim-idx the index of its result in the
\* verification-result list as passed in and as status class that result's
\* status, so that the lookup stage25[idx] of Stage3Annotated returns the
\* result whose claim text equals, case ignored, the marked text.
C23_MarkerNamesItsResult ==
    annotated.phase = "returned" =>
        \A k \in 1..Len(Markers(Out)) :
            LET m == Markers(Out)[k]
            IN  /\ m.claimIdx \in 0..(Len(Results) - 1)
                /\ ResultAt(m.claimIdx).hasClaim
                /\ m.status = StatusLower(ResultAt(m.claimIdx).status)
                /\ toLowerCase(m.content) = toLowerCase(ResultAt(m.claimIdx).claim)

\* the actionable results whose claim text is missing or empty (1-based)
Claimless ==
    {i \in 1..Len(Results) :
        /\ Results[i].status \in {"VERIFIED", "CONTRADICTED", "CONTESTED"}
        /\ (~Results[i].hasClaim \/ Results[i].claim = <<>>)}

\* an annotated text of the list without result k (0-based), its markers
\* renumbered to the indices of the full list
RenumberedMarkers(tokens, k) ==
    [n \in 1..Len(tokens) |->
        IF tokens[n].unit = "attrs"
        THEN [tokens[n] EXCEPT !.claimIdx = IF @ >= k THEN @ + 1 ELSE @]
        ELSE tokens[n]]

\* C24: annotateChairmanText never fails on a result whose claim text is
\* missing or empty: such a result is skipped and the remaining actionable
\* results are annotated exactly as if it were absent, for any number of
\* actionable results in the list.
C24_ClaimlessSkipped ==
    (annotated.phase # "pending" /\ Claimless # {}) =>
        /\ annotated.phase = "returned"
        /\ \A i \in Claimless :
              LET without == annotateChairmanText(responseText,
                                                  Arr(Without(Results, i - 1)))
              IN  /\ without.phase = "returned"
                  /\ Out = RenumberedMarkers(without.text, i - 1)

----------------------------------------------------------------------------
(* The council stream in App.jsx *)

\* The stage events, and the stage an event type names
StageNames == {"stage1", "stage2", "stage25", "stage3"}
StartOf(stage) ==
    CASE stage = "stage1" -> "stage1_start" [] stage = "stage2" -> "stage2_start"
      [] stage = "stage25" -> "stage25_start" [] stage = "stage3" -> "stage3_start"
CompleteOf(stage) ==
    CASE stage = "stage1" -> "stage1_complete" [] stage = "stage2" -> "stage2_complete"
      [] stage = "stage25" -> "stage25_complete" [] stage = "stage3" -> "stage3_complete"

\* the last message shown is the assistant message in progress: only the
\* message runCouncilStream appends has loading flags, and nothing is shown
\* once React has unmounted the app
Live(msgs) == ~renderError /\ Len(msgs) > 0 /\ "loading" \in DOMAIN msgs[Len(msgs)]

\* onEvent is called with an event of the type
Delivers(eventType) == delivered' = Append(delivered, eventType)

\* msg.loading[stage] is the value; msg[field] is the value
LoadingIs(msg, stage, value) ==
    /\ "loading" \in DOMAIN msg
    /\ stage \in DOMAIN msg.loading
    /\ msg.loading[stage] = value
FieldIs(msg, field, value) == field \in DOMAIN msg /\ msg[field] = value

\* C21: while the assistant message in progress is the last one shown, every
\* <stage>_start event sets its loading flag of the stage, and every
\* <stage>_complete event stores the payload in its field of the stage and
\* clears the flag -- for stage1, stage2, stage25 and stage3.
C21_StageEventsStored ==
    [][\A stage \in StageNames :
          /\ (Live(messages) /\ Delivers(StartOf(stage))) =>
                LoadingIs(messages'[Len(messages')], stage, TRUE)
          /\ (Live(messages) /\ Delivers(CompleteOf(stage))) =>
                /\ FieldIs(messages'[Len(messages')], stage,
                           Payload(CompleteOf(stage), streamCall.conversationId))
                /\ LoadingIs(messages'[Len(messages')], stage, FALSE)]_vars

\* The states of a council stream that has ended: api.sendMessageStream
\* returned (after a 'complete' event, after an 'error' event, or with
\* neither delivered), or it threw
StreamEnds == {"closed", "threw"}

\* C26: once the council stream of a turn has ended, in whichever of the
\* four ways, isLoading is false (in an app that is still mounted).
C26_EndedNotLoading ==
    (streamCall.state \in StreamEnds /\ ~renderError) => ~isLoading

\* a step that opens a council stream; a step of "Cancel" in the review
OpensStream == streamCall' # streamCall /\ streamCall'.state = "open"
Cancels == phase0State.status = "pending" /\ phase0State'.status = "idle"
               /\ streamCall' = streamCall

\* C27: the council stream is posted to the conversation that was selected
\* when the query was submitted, and "Cancel" removes exactly the optimistic
\* user message of that submission, whatever conversation the user selected
\* or created while the scrub or the review was pending.
C27_TurnStaysInItsConversation ==
    [][/\ OpensStream => streamCall'.conversationId = scrubCall.conversationId
       /\ Cancels => messages = Append(messages', UserMessage(scrubCall.content))]_vars

\* C28: an event of the stream changes no message but the assistant message
\* runCouncilStream created for the turn -- never a message loaded for
\* another conversation and never a user message.
C28_EventsUpdateOwnMessage ==
    [][\A eventType \in Range(EventOrder) \cup {"error"} :
          Delivers(eventType) =>
              /\ Len(messages') = Len(messages)
              /\ \A k \in 1..Len(messages) :
                    messages'[k] # messages[k] =>
                        /\ messages[k].role = "assistant"
                        /\ "loading" \in DOMAIN messages[k]]_vars

\* C29: after the stream has ended with an 'error' event, no loading flag
\* of the assistant message in progress (stage1, stage2, stage3) is true.
C29_ErrorClearsLoading ==
    (streamCall.state \in StreamEnds /\ "error" \in Range(delivered) /\ Live(messages)) =>
        \A stage \in {"stage1", "stage2", "stage3"} :
            LoadingIs(messages[Len(messages)], stage, FALSE)

----------------------------------------------------------------------------
(* The reader of the event stream in api.js *)

\* C25: sendMessageStream passes every event the server sent to onEvent,
\* exactly once and in the order sent, however the network cuts the stream
\* into chunks.
C25_EveryEventOnce == readerDone => onEventCalls = serverEvents

====
